---- MODULE Spec2Model ----
(***************************************************************************)
(* FemBalance ML service: the cycle predictor, the PCOS risk predictor and *)
(* the inference coordinator (MLAPIHandler), modelled from src/ml/src.     *)
(*                                                                         *)
(* Number representation (fixed point, exact where the code is exact):     *)
(*   - cycle lengths, ages, counts: integers                               *)
(*   - outputs of the two base regressors: tenths of a day                 *)
(*   - the ensemble 0.7*rf + 0.3*lr: hundredths of a day (exact)           *)
(*   - probabilities, regularity, confidence, std: thousandths (floor)     *)
(*   - calendar dates: <<year, month, day>> triples on the caller's side,  *)
(*     day ordinals inside the program (datetime arithmetic)               *)
(*   - the wall clock is read at day granularity                           *)
(***************************************************************************)
EXTENDS Integers, Sequences, FiniteSets, TLC

VARIABLES
    cyc,        \* CyclePredictor: _loaded flag and its CyclePredictionModel
    pcos,       \* PCOSPredictor: _loaded flag and its PCOSRiskModel
    handler,    \* MLAPIHandler: constructed flag and models_loaded
    now,        \* wall clock (day ordinal), read by datetime.now()/utcnow()
    res,        \* observable outcome of the last call
    atLoad      \* PCOS model state recorded when load_model last completed

vars == <<cyc, pcos, handler, now, res, atLoad>>

----------------------------------------------------------------------------
(* Bounds of the model *)

MaxLen == 2          \* longest cycle history built freely from RecordPool
MaxTicks == 1        \* days the wall clock may advance
MaxGrow == 2         \* PCOS predict calls that may extend feature_columns

----------------------------------------------------------------------------
(* Small arithmetic helpers *)

Abs(x) == IF x < 0 THEN -x ELSE x

Max2(a, b) == IF a >= b THEN a ELSE b

Min2(a, b) == IF a <= b THEN a ELSE b

RECURSIVE SumSeq(_)
SumSeq(s) == IF s = <<>> THEN 0 ELSE Head(s) + SumSeq(Tail(s))

\* floor(sqrt(n)) for n >= 0, by bisection on [lo, hi]
RECURSIVE ISqrtIn(_, _, _)
ISqrtIn(n, lo, hi) ==
    IF lo >= hi THEN lo
    ELSE LET mid == (lo + hi + 1) \div 2
         IN IF mid * mid <= n THEN ISqrtIn(n, mid, hi) ELSE ISqrtIn(n, lo, mid - 1)

ISqrt(n) == ISqrtIn(n, 0, 40000)

\* Python round(): round half to even, on a value given in hundredths
RoundHalfEven100(x) ==
    LET q == x \div 100
        r == x - q * 100
    IN IF r < 50 THEN q
       ELSE IF r > 50 THEN q + 1
       ELSE IF q % 2 = 0 THEN q ELSE q + 1

\* Python int(): truncation toward zero, on a value given in hundredths
Trunc100(x) == IF x >= 0 THEN x \div 100 ELSE -((-x) \div 100)

----------------------------------------------------------------------------
(* Calendar: datetime.fromisoformat / timedelta / isoformat *)

NoDate == <<>>              \* the key is missing or None
BadDate == <<0, 0, 0>>      \* a string that is not an ISO-8601 date

IsLeap(y) == (y % 4 = 0 /\ y % 100 # 0) \/ y % 400 = 0

DaysInMonth(y, m) ==
    IF m = 2 THEN (IF IsLeap(y) THEN 29 ELSE 28)
    ELSE IF m \in {4, 6, 9, 11} THEN 30 ELSE 31

\* fromisoformat accepts the string
ValidDate(dt) ==
    /\ Len(dt) = 3
    /\ dt[1] \in 1..9999
    /\ dt[2] \in 1..12
    /\ dt[3] >= 1 /\ dt[3] <= DaysInMonth(dt[1], dt[2])

\* the datetime of an ISO date, as a day ordinal (days since 1970-01-01)
FromIso(dt) ==
    LET y == IF dt[2] <= 2 THEN dt[1] - 1 ELSE dt[1]
        era == y \div 400
        yoe == y - era * 400
        mp == (dt[2] + 9) % 12
        doy == (153 * mp + 2) \div 5 + dt[3] - 1
        doe == yoe * 365 + yoe \div 4 - yoe \div 100 + doy
    IN era * 146097 + doe - 719468

\* datetime.isoformat(): the calendar date of a day ordinal
IsoFormat(z) ==
    LET zz == z + 719468
        era == zz \div 146097
        doe == zz - era * 146097
        yoe == (doe - doe \div 1460 + doe \div 36524 - doe \div 146096) \div 365
        doy == doe - (365 * yoe + yoe \div 4 - yoe \div 100)
        mp == (5 * doy + 2) \div 153
        d == doy - (153 * mp + 2) \div 5 + 1
        m == IF mp < 10 THEN mp + 3 ELSE mp - 9
        y == yoe + era * 400
    IN <<IF m <= 2 THEN y + 1 ELSE y, m, d>>

MonthOf(z) == IsoFormat(z)[2]

\* CyclePredictionModel._get_season
GetSeason(z) ==
    LET month == MonthOf(z)
    IN IF month \in {12, 1, 2} THEN 0
       ELSE IF month \in {3, 4, 5} THEN 1
       ELSE IF month \in {6, 7, 8} THEN 2
       ELSE 3

----------------------------------------------------------------------------
(* Cycle records and the validator (utils/validation_utils.py) *)

Absent == 0 - 1             \* the key is missing or None (numeric fields)

Null == 0 - 2               \* the key is present with value None

\* a value float() and int() refuse (a string that is no number)
NotANumber == 0 - 3

\* the float a JSON number such as 1e999 parses to; int() raises
\* OverflowError on it
Infinity == 1000000

\* the key is present with value None (date fields)
NullDate == <<Null>>

CycleRec(d, c, p) == [start_date |-> d, cycle_length |-> c, period_length |-> p]

\* DataValidator.valid_ranges['cycle_length']
CycleLengthMin == 21

CycleLengthMax == 45

\* errors of one record, in the order the code appends them
CycleRecordErrors(i, cycle) ==
    (IF cycle.start_date \in {NoDate, NullDate}
        THEN <<[idx |-> i, code |-> "missing_start_date"]>> ELSE <<>>)
    \o (IF cycle.cycle_length \in {Absent, Null}
        THEN <<[idx |-> i, code |-> "missing_cycle_length"]>> ELSE <<>>)
    \o (IF cycle.start_date # NoDate /\ ~ValidDate(cycle.start_date)
        THEN <<[idx |-> i, code |-> "invalid_date_format"]>> ELSE <<>>)
    \o (IF cycle.cycle_length \in {Absent, Null} THEN <<>>
        ELSE IF cycle.cycle_length = NotANumber
        THEN <<[idx |-> i, code |-> "cycle_length_not_integer"]>>
        ELSE IF ~(CycleLengthMin <= cycle.cycle_length
                  /\ cycle.cycle_length <= CycleLengthMax)
        THEN <<[idx |-> i, code |-> "cycle_length_out_of_range"]>>
        ELSE <<>>)

RECURSIVE CycleErrorsFrom(_, _)
CycleErrorsFrom(data, i) ==
    IF i > Len(data) THEN <<>>
    ELSE CycleRecordErrors(i, data[i]) \o CycleErrorsFrom(data, i + 1)

\* validate_cycle_input without the check for an empty list
ValidateCycleInput_EmptyOk(data) ==
    [ok |-> Len(CycleErrorsFrom(data, 1)) = 0, errors |-> CycleErrorsFrom(data, 1)]

\* DataValidator.validate_cycle_input: the pair (ok, errors)
ValidateCycleInput(data) ==
    IF Len(data) = 0
    THEN [ok |-> FALSE, errors |-> <<[idx |-> 0, code |-> "at_least_one_cycle"]>>]
    ELSE LET errors == CycleErrorsFrom(data, 1)
         IN [ok |-> Len(errors) = 0, errors |-> errors]

\* int(cycle['cycle_length']) raises OverflowError, which the except clause
\* (ValueError, TypeError) does not catch
ValidateCycleRaises(data) == \E i \in 1..Len(data) : data[i].cycle_length = Infinity

----------------------------------------------------------------------------
(* CyclePredictionModel.process_cycle_data / engineer_features *)

\* insert row r into the date-sorted sequence s after every row that is
\* not later (sort_values on a short frame is a stable insertion sort)
RECURSIVE InsertByDate(_, _)
InsertByDate(r, s) ==
    IF s = <<>> THEN <<r>>
    ELSE IF Head(s).start <= r.start THEN <<Head(s)>> \o InsertByDate(r, Tail(s))
    ELSE <<r>> \o s

RECURSIVE SortByDate(_)
SortByDate(s) ==
    IF s = <<>> THEN <<>>
    ELSE InsertByDate(s[Len(s)], SortByDate(SubSeq(s, 1, Len(s) - 1)))

\* rows with start_date converted by pd.to_datetime
ToRows(cycles) ==
    [i \in 1..Len(cycles) |->
        [start |-> FromIso(cycles[i].start_date),
         cycle_length |-> cycles[i].cycle_length,
         period_length |-> cycles[i].period_length]]

\* the 'cycle_length' column exists iff some record carries the key
HasCycleLengthColumn(cycles) ==
    \E i \in 1..Len(cycles) : cycles[i].cycle_length # Absent

\* process_cycle_data: raises (ok = FALSE) on an empty list or an
\* unparsable date; otherwise the sorted frame with the defaults filled in
FillDefaults(sorted, hasCol) ==
    [i \in 1..Len(sorted) |->
        [start |-> sorted[i].start,
         cycle_length |->
            IF hasCol THEN sorted[i].cycle_length
            ELSE IF i = 1 THEN 28
            ELSE sorted[i].start - sorted[i - 1].start,
         period_length |->
            IF sorted[i].period_length = Absent THEN 5
            ELSE sorted[i].period_length]]

ProcessCycleData(cycles) ==
    IF Len(cycles) = 0 \/ \E i \in 1..Len(cycles) : ~ValidDate(cycles[i].start_date)
    THEN [ok |-> FALSE, df |-> <<>>]
    ELSE [ok |-> TRUE,
          df |-> FillDefaults(SortByDate(ToRows(cycles)), HasCycleLengthColumn(cycles))]

CycleLengths(df) == [i \in 1..Len(df) |-> df[i].cycle_length]

PeriodLengths(df) == [i \in 1..Len(df) |-> df[i].period_length]

\* Series.mean(), in thousandths
Mean1000(xs) == (1000 * SumSeq(xs)) \div Len(xs)

\* Series.std() (sample standard deviation, ddof = 1), in thousandths;
\* defined for Len(xs) >= 2
Std1000(xs) ==
    LET n == Len(xs)
        sq == [i \in 1..n |-> xs[i] * xs[i]]
        num == n * SumSeq(sq) - SumSeq(xs) * SumSeq(xs)
    IN ISqrt((1000000 * num) \div (n * (n - 1)))

\* 1 - cycle_std / 7 without the floor at 0
RegularityOf_NoFloor(std1000) == (7000 - std1000) \div 7

\* max(0, 1 - cycle_std / 7), in thousandths
RegularityOf(std1000) == Max2(0, (7000 - std1000) \div 7)

\* the features returned for a frame of fewer than 2 rows
DefaultFeatures(n, nowv) ==
    [avg_cycle_length |-> 28000,
     cycle_regularity |-> 500,
     avg_period_length |-> 5000,
     trend_slope |-> 0,
     recent_avg |-> 28000,
     season |-> GetSeason(nowv),
     cycles_count |-> n]

\* the features computed from a frame of at least 2 rows
ComputedFeatures(df, nowv) ==
    LET n == Len(df)
        cl == CycleLengths(df)
        avg == Mean1000(cl)
        std == Std1000(cl)
        recent == IF n >= 4 THEN Mean1000(SubSeq(cl, n - 2, n)) ELSE avg
        trend == IF n >= 4
                 THEN (1000 * (SumSeq(SubSeq(cl, n - 2, n)) * (n - 3)
                               - 3 * SumSeq(SubSeq(cl, 1, n - 3))))
                      \div (3 * (n - 3) * n)
                 ELSE 0
        last_date == df[n].start
    IN [avg_cycle_length |-> avg,
        cycle_regularity |-> RegularityOf(std),
        avg_period_length |-> Mean1000(PeriodLengths(df)),
        trend_slope |-> trend,
        recent_avg |-> recent,
        season |-> GetSeason(last_date),
        cycles_count |-> n,
        days_since_last |-> nowv - last_date,
        cycle_std |-> std]

NoFeatures == [none |-> TRUE]

\* engineer_features: raises ValueError (ok = FALSE) when processing fails
FeaturesOf(p, nowv) ==
    IF ~p.ok THEN [ok |-> FALSE, features |-> NoFeatures]
    ELSE IF Len(p.df) < 2
         THEN [ok |-> TRUE, features |-> DefaultFeatures(Len(p.df), nowv)]
    ELSE [ok |-> TRUE, features |-> ComputedFeatures(p.df, nowv)]

EngineerFeatures(cycles, nowv) == FeaturesOf(ProcessCycleData(cycles), nowv)

\* the nine keys predict reads to build feature_array
CycleFeatureKeys ==
    {"avg_cycle_length", "cycle_regularity", "avg_period_length", "trend_slope",
     "recent_avg", "season", "cycles_count", "days_since_last", "cycle_std"}

----------------------------------------------------------------------------
(* The cycle model bundle: two regressors and their scaler                 *)
(*                                                                         *)
(* A regressor is a deterministic function of the feature vector.  The     *)
(* forest is modelled by a decision stump on days_since_last, the linear   *)
(* model by an affine function of days_since_last; outputs are in tenths   *)
(* of a day.                                                               *)

CycleModel(k, lo, hi, cut, icpt, slope) ==
    [kind |-> k, rfLo |-> lo, rfHi |-> hi, rfCut |-> cut,
     lrIcpt |-> icpt, lrSlope |-> slope]

\* self.model = None
NoCycleModel == CycleModel("none", 0, 0, 0, 0, 0)

\* _initialize_default_model: two DummyRegressor(strategy='mean') fit on the
\* same random targets drawn around 28 days; both predict that mean
DefaultMeans == {280, 283}

DefaultCycleModel(mean) == CycleModel("default", mean, mean, 0, mean, 0)

RfPredict(m, features) ==
    IF features.days_since_last > m.rfCut THEN m.rfHi ELSE m.rfLo

LrPredict(m, features) == m.lrIcpt + m.lrSlope * features.days_since_last

----------------------------------------------------------------------------
(* CyclePredictionModel.predict and _predict_cycle_phases *)

\* the ensemble output left as it is
ClampLength100_NoClamp(x) == x

\* max(21, min(45, x)) on hundredths of a day
ClampLength100(x) == Max2(CycleLengthMin * 100, Min2(CycleLengthMax * 100, x))

\* the confidence left as it is
Clip01_NoClip(x) == x

\* np.clip(x, 0.0, 1.0) on thousandths
Clip01(x) == Max2(0, Min2(1000, x))

\* max(cycles, key=start_date): the first record with the latest date
RECURSIVE LastCycleIdx(_, _, _)
LastCycleIdx(cycles, i, best) ==
    IF i > Len(cycles) THEN best
    ELSE IF FromIso(cycles[i].start_date) > FromIso(cycles[best].start_date)
         THEN LastCycleIdx(cycles, i + 1, i)
         ELSE LastCycleIdx(cycles, i + 1, best)

\* the first record of the list as the caller gave it
LastCycle_FirstGiven(cycles) == cycles[1]

LastCycle(cycles) == cycles[LastCycleIdx(cycles, 2, 1)]

\* last_cycle.get('cycle_length', 28)
LastLength(cycles) ==
    IF LastCycle(cycles).cycle_length = Absent THEN 28
    ELSE LastCycle(cycles).cycle_length

\* the anchor taken from the last record of the list as the caller gave it
PredictedStart_ListOrder(cycles) ==
    FromIso(cycles[Len(cycles)].start_date)
    + (IF cycles[Len(cycles)].cycle_length = Absent THEN 28
       ELSE cycles[Len(cycles)].cycle_length)

PredictedStart(cycles) == FromIso(LastCycle(cycles).start_date) + LastLength(cycles)

\* 1 - abs(rf - lr) / max(rf, lr, 1) averaged with the regularity, in
\* thousandths, before clipping
RawCycleConfidence(rf, lr, regularity) ==
    LET den == Max2(Max2(rf, lr), 10)
        diff == Abs(rf - lr)
    IN (1000 * (den - diff) + regularity * den) \div (2 * den)

CycleConfidence(rf, lr, regularity) == Clip01(RawCycleConfidence(rf, lr, regularity))

\* _predict_cycle_phases(start_date, cycle_length)
PredictCyclePhases(start, cycle_length) ==
    LET ovulation_day == cycle_length - 14
    IN [menstrual |-> [start |-> IsoFormat(start), end |-> IsoFormat(start + 5)],
        follicular |-> [start |-> IsoFormat(start + 6), end |-> IsoFormat(start + 13)],
        ovulation |-> [start |-> IsoFormat(start + ovulation_day - 1),
                       end |-> IsoFormat(start + ovulation_day + 1)],
        luteal |-> [start |-> IsoFormat(start + ovulation_day + 2),
                    end |-> IsoFormat(start + cycle_length)]]

\* the fertile window around ovulation_date
FertileWindow(ovulation_date) ==
    [start |-> IsoFormat(ovulation_date - 5),
     end |-> IsoFormat(ovulation_date + 1),
     peak |-> IsoFormat(ovulation_date)]

\* the result dictionary, given the clamped length and the anchor date
ResultDict(predicted_length, predicted_start, confidence, nowv) ==
    [predicted_start_date |-> IsoFormat(predicted_start),
     predicted_cycle_length |-> RoundHalfEven100(predicted_length),
     confidence |-> confidence,
     fertile_window |->
         FertileWindow(predicted_start + Trunc100(predicted_length) - 14),
     cycle_phase_predictions |->
         PredictCyclePhases(predicted_start, Trunc100(predicted_length)),
     model_version |-> "1.0.0",
     timestamp |-> nowv]

\* the result dictionary built from the two base-model outputs
CycleResult(cycles, features, rf, lr, nowv) ==
    ResultDict(ClampLength100(7 * rf + 3 * lr), PredictedStart(cycles),
               CycleConfidence(rf, lr, features.cycle_regularity), nowv)

NoValue == [kind |-> "none"]

NoAux == [rf |-> 0, lr |-> 0, features |-> NoFeatures]

\* the ensemble step of predict, given the base-model outputs
PredictFromOutputs(cycles, features, rf, lr, nowv) ==
    [ok |-> TRUE, cause |-> "none",
     steps |-> <<"engineer_features", "scale", "base_models">>,
     value |-> CycleResult(cycles, features, rf, lr, nowv),
     aux |-> [rf |-> rf, lr |-> lr, features |-> features]]

\* predict after engineer_features returned or raised e
PredictFromFeatures(m, cycles, e, nowv) ==
    IF ~e.ok
    THEN [ok |-> FALSE, cause |-> "feature_engineering_failed",
          steps |-> <<"engineer_features">>, value |-> NoValue, aux |-> NoAux]
    ELSE IF ~(CycleFeatureKeys \subseteq DOMAIN e.features)
    THEN [ok |-> FALSE, cause |-> "missing_feature_key",
          steps |-> <<"engineer_features">>, value |-> NoValue,
          aux |-> [rf |-> 0, lr |-> 0, features |-> e.features]]
    ELSE PredictFromOutputs(cycles, e.features, RfPredict(m.model, e.features),
                            LrPredict(m.model, e.features), nowv)

\* CyclePredictionModel.predict on model state m: every exception is
\* re-raised as RuntimeError("Prediction failed: ...")
CycleModelPredict(m, cycles, nowv) ==
    IF ~m.is_trained \/ m.model = NoCycleModel
    THEN [ok |-> FALSE, cause |-> "not_trained", steps |-> <<>>,
          value |-> NoValue, aux |-> NoAux]
    ELSE PredictFromFeatures(m, cycles, EngineerFeatures(cycles, nowv), nowv)

----------------------------------------------------------------------------
(* User profiles, sanitize_input_data and validate_pcos_input *)

\* bmi is in tenths; family_history is 0/1 (a JSON boolean is an int)
Profile(a, b, cl, pl, ef, sl, sq, fh, sc) ==
    [age |-> a, bmi |-> b, cycle_length |-> cl, period_length |-> pl,
     exercise_frequency |-> ef, stress_level |-> sl, sleep_quality |-> sq,
     family_history |-> fh, symptom_count |-> sc]

ProfileFields ==
    {"age", "bmi", "cycle_length", "period_length", "exercise_frequency",
     "stress_level", "sleep_quality", "family_history", "symptom_count"}

\* sanitize_input_data: None values are dropped, numbers are kept
SanitizeInputData(data) ==
    [f \in ProfileFields |-> IF data[f] = Null THEN Absent ELSE data[f]]

\* the columns of the one-row DataFrame built from the sanitized dict
ColumnsOf(data) == {f \in DOMAIN data : data[f] # Absent}

\* DataValidator.valid_ranges, in the unit of each field
ValidRange(f) ==
    CASE f = "age" -> <<12, 60>>
      [] f = "bmi" -> <<100, 500>>
      [] f = "cycle_length" -> <<CycleLengthMin, CycleLengthMax>>
      [] f = "period_length" -> <<1, 10>>
      [] f = "severity" -> <<1, 10>>

\* DataValidator.required_fields['pcos_risk'], which are also the ranged fields
PcosRequired == <<"age", "bmi", "cycle_length", "period_length">>

RECURSIVE PcosMissingErrors(_, _)
PcosMissingErrors(data, i) ==
    IF i > Len(PcosRequired) THEN <<>>
    ELSE (IF data[PcosRequired[i]] \in {Absent, Null}
          THEN <<[field |-> PcosRequired[i], code |-> "missing"]>> ELSE <<>>)
         \o PcosMissingErrors(data, i + 1)

\* the range check of one field: float(value) inside try/except
RangeErrors(f, value) ==
    IF value \in {Absent, Null} THEN <<>>
    ELSE IF value = NotANumber THEN <<[field |-> f, code |-> "not_a_number"]>>
    ELSE IF ~(ValidRange(f)[1] <= value /\ value <= ValidRange(f)[2])
    THEN <<[field |-> f, code |-> "out_of_range"]>>
    ELSE <<>>

RECURSIVE PcosRangeErrors(_, _)
PcosRangeErrors(data, i) ==
    IF i > Len(PcosRequired) THEN <<>>
    ELSE RangeErrors(PcosRequired[i], data[PcosRequired[i]])
         \o PcosRangeErrors(data, i + 1)

\* DataValidator.validate_pcos_input: the pair (ok, errors)
ValidatePcosInput(data) ==
    LET errors == PcosMissingErrors(data, 1) \o PcosRangeErrors(data, 1)
    IN [ok |-> Len(errors) = 0, errors |-> errors]

----------------------------------------------------------------------------
(* Symptom lists: the 'symptoms' field of a profile and validate_symptom_input *)

\* return len(errors) == 0, errors
ErrorPair(errors) == [ok |-> Len(errors) = 0, errors |-> errors]

\* valid_categories['symptom_types'] / SYMPTOM_TYPES, in the order of their codes
SymptomTypes ==
    <<"cramps", "bloating", "mood_swings", "headache", "fatigue", "acne",
      "breast_tenderness", "back_pain", "nausea", "other">>

SymptomTypeSet == {SymptomTypes[i] : i \in 1..Len(SymptomTypes)}

\* the 'symptoms' value of a profile: the key is absent, None, a list of
\* strings, or a number
NoSymptoms == [kind |-> "absent", items |-> <<>>, n |-> 0]

NullSymptoms == [kind |-> "null", items |-> <<>>, n |-> 0]

SymptomList(items) == [kind |-> "list", items |-> items, n |-> 0]

SymptomNumber(n) == [kind |-> "number", items |-> <<>>, n |-> n]

\* 'symptoms' in data and data['symptoms']
SymptomsTruthy(symptoms) ==
    \/ symptoms.kind = "list" /\ Len(symptoms.items) > 0
    \/ symptoms.kind = "number" /\ symptoms.n # 0

\* for symptom in data['symptoms'] raises TypeError on a number
ValidatePcosRaises(symptoms) == SymptomsTruthy(symptoms) /\ symptoms.kind = "number"

RECURSIVE InvalidSymptomErrors(_, _)
InvalidSymptomErrors(items, i) ==
    IF i > Len(items) THEN <<>>
    ELSE (IF items[i] \notin SymptomTypeSet
          THEN <<[field |-> "symptoms", code |-> "invalid_symptom_type"]>> ELSE <<>>)
         \o InvalidSymptomErrors(items, i + 1)

\* validate_pcos_input on a profile that carries a 'symptoms' list
ValidatePcosWithSymptoms(data, symptoms) ==
    ErrorPair(ValidatePcosInput(data).errors
              \o (IF SymptomsTruthy(symptoms)
                  THEN InvalidSymptomErrors(symptoms.items, 1) ELSE <<>>))

\* a type key that is absent, or present with value None
NoType == "<absent>"

NullType == "<none>"

SymptomRec(t, s, d) == [type |-> t, severity |-> s, date |-> d]

\* errors of one symptom record, in the order the code appends them
SymptomRecordErrors(i, symptom) ==
    (IF symptom.type \in {NoType, NullType}
        THEN <<[idx |-> i, code |-> "missing_type"]>> ELSE <<>>)
    \o (IF symptom.severity \in {Absent, Null}
        THEN <<[idx |-> i, code |-> "missing_severity"]>> ELSE <<>>)
    \o (IF symptom.date \in {NoDate, NullDate}
        THEN <<[idx |-> i, code |-> "missing_date"]>> ELSE <<>>)
    \o (IF symptom.type # NoType /\ symptom.type \notin SymptomTypeSet
        THEN <<[idx |-> i, code |-> "invalid_symptom_type"]>> ELSE <<>>)
    \o (IF symptom.severity \in {Absent, Null} THEN <<>>
        ELSE IF symptom.severity = NotANumber
        THEN <<[idx |-> i, code |-> "severity_not_a_number"]>>
        ELSE IF ~(ValidRange("severity")[1] <= symptom.severity
                  /\ symptom.severity <= ValidRange("severity")[2])
        THEN <<[idx |-> i, code |-> "severity_out_of_range"]>>
        ELSE <<>>)
    \o (IF symptom.date # NoDate /\ ~ValidDate(symptom.date)
        THEN <<[idx |-> i, code |-> "invalid_date_format"]>> ELSE <<>>)

RECURSIVE SymptomErrorsFrom(_, _)
SymptomErrorsFrom(data, i) ==
    IF i > Len(data) THEN <<>>
    ELSE SymptomRecordErrors(i, data[i]) \o SymptomErrorsFrom(data, i + 1)

\* DataValidator.validate_symptom_input: the pair (ok, errors)
ValidateSymptomInput(data) ==
    IF Len(data) = 0
    THEN [ok |-> FALSE, errors |-> <<[idx |-> 0, code |-> "at_least_one_symptom"]>>]
    ELSE ErrorPair(SymptomErrorsFrom(data, 1))

----------------------------------------------------------------------------
(* SymptomAnalysisModel.process_symptom_data *)

RECURSIVE IndexOf(_, _, _)
IndexOf(s, x, i) ==
    IF i > Len(s) THEN 0 ELSE IF s[i] = x THEN i ELSE IndexOf(s, x, i + 1)

\* df['type'].map(SYMPTOM_TYPES) with the unmapped types left as NaN
EncodeSymptomType_NoFill(t) ==
    IF t \in SymptomTypeSet THEN IndexOf(SymptomTypes, t, 1) - 1 ELSE Absent

\* df['type'].map(SYMPTOM_TYPES).fillna(SYMPTOM_TYPES['other'])
EncodeSymptomType(t) ==
    IF t \in SymptomTypeSet THEN IndexOf(SymptomTypes, t, 1) - 1
    ELSE IndexOf(SymptomTypes, "other", 1) - 1

\* CYCLE_PHASES and _get_cycle_phase; a NaN cycle day falls through to luteal
GetCyclePhase(cycle_day) ==
    IF 1 <= cycle_day /\ cycle_day <= 5 THEN "menstrual"
    ELSE IF 6 <= cycle_day /\ cycle_day <= 13 THEN "follicular"
    ELSE IF 14 <= cycle_day /\ cycle_day <= 16 THEN "ovulation"
    ELSE "luteal"

\* the dates pd.to_datetime turns into a timestamp (the others become NaT)
HasDate(symptom) == symptom.date \notin {NoDate, NullDate}

\* dates.min(), as a day ordinal; 0 when every date is NaT
MinDate(symptoms) ==
    IF \A i \in 1..Len(symptoms) : ~HasDate(symptoms[i]) THEN 0
    ELSE CHOOSE d \in {FromIso(symptoms[i].date) : i \in {j \in 1..Len(symptoms) : HasDate(symptoms[j])}} :
            \A i \in 1..Len(symptoms) :
                HasDate(symptoms[i]) => d <= FromIso(symptoms[i].date)

\* _estimate_cycle_day of one row: ((date - min_date).days % 28) + 1
EstimateCycleDay(symptom, min_date) ==
    IF HasDate(symptom) THEN ((FromIso(symptom.date) - min_date) % 28) + 1 ELSE Absent

\* the columns process_symptom_data adds to one row
SymptomRow(symptom, min_date) ==
    [type |-> symptom.type,
     symptom_type_encoded |-> EncodeSymptomType(symptom.type),
     cycle_day |-> EstimateCycleDay(symptom, min_date),
     cycle_phase |-> GetCyclePhase(EstimateCycleDay(symptom, min_date)),
     month |-> IF HasDate(symptom) THEN symptom.date[2] ELSE Absent]

\* a required column is missing when no record carries its key
SymptomColumnsMissing(symptoms) ==
    \/ \A i \in 1..Len(symptoms) : symptoms[i].type = NoType
    \/ \A i \in 1..Len(symptoms) : symptoms[i].severity = Absent
    \/ \A i \in 1..Len(symptoms) : symptoms[i].date = NoDate

\* process_symptom_data raises ValueError on an empty list, a missing
\* column or a date pd.to_datetime cannot parse
ProcessSymptomRaises(symptoms) ==
    \/ Len(symptoms) = 0
    \/ SymptomColumnsMissing(symptoms)
    \/ \E i \in 1..Len(symptoms) : HasDate(symptoms[i]) /\ ~ValidDate(symptoms[i].date)

SymptomRows(symptoms, min_date) ==
    [i \in 1..Len(symptoms) |-> SymptomRow(symptoms[i], min_date)]

\* process_symptom_data(symptoms): the frame it returns
ProcessSymptomData(symptoms) == SymptomRows(symptoms, MinDate(symptoms))

----------------------------------------------------------------------------
(* DataValidator.validate_model_output *)

PcosOutputRequired == <<"risk_score", "risk_level", "confidence">>

CycleOutputRequired == <<"predicted_start_date", "predicted_cycle_length", "confidence">>

\* one "Missing required output field" error per required key not in output
RECURSIVE OutputMissingErrors(_, _, _)
OutputMissingErrors(output, required, i) ==
    IF i > Len(required) THEN <<>>
    ELSE (IF required[i] \notin DOMAIN output
          THEN <<[field |-> required[i], code |-> "missing"]>> ELSE <<>>)
         \o OutputMissingErrors(output, required, i + 1)

\* the range check of risk_score, in thousandths
RiskScoreErrors(output) ==
    IF "risk_score" \notin DOMAIN output THEN <<>>
    ELSE IF output.risk_score \in {Null, NotANumber}
         THEN <<[field |-> "risk_score", code |-> "not_a_number"]>>
    ELSE IF ~(0 <= output.risk_score /\ output.risk_score <= 1000)
         THEN <<[field |-> "risk_score", code |-> "out_of_range"]>>
    ELSE <<>>

OutputErrors(output, model_type) ==
    IF model_type = "pcos_risk"
    THEN OutputMissingErrors(output, PcosOutputRequired, 1) \o RiskScoreErrors(output)
    ELSE IF model_type = "cycle_prediction"
    THEN OutputMissingErrors(output, CycleOutputRequired, 1)
    ELSE <<>>

\* validate_model_output(output, model_type): the pair (ok, errors)
ValidateModelOutput(output, model_type) ==
    [ok |-> Len(OutputErrors(output, model_type)) = 0,
     errors |-> OutputErrors(output, model_type)]

----------------------------------------------------------------------------
(* PCOSRiskModel: engineer_features, preprocess_data, predict *)

\* FEATURE_COLUMNS['pcos_risk']
BaseFeatureColumns ==
    <<"age", "bmi", "cycle_length", "period_length", "exercise_frequency",
      "stress_level", "sleep_quality", "family_history", "symptom_count">>

\* new_features in engineer_features
NewFeatures ==
    <<"bmi_category", "cycle_irregular", "period_category", "lifestyle_risk",
      "age_group">>

\* the columns engineer_features reads
EngineerInputs ==
    {"bmi", "cycle_length", "period_length", "exercise_frequency",
     "stress_level", "sleep_quality", "age"}

\* the bins closed on the left: [0, b1), [b1, b2), [b2, b3), ...
Cut3_LeftClosed(x, b1, b2, b3) ==
    IF x < b1 THEN 0 ELSE IF x < b2 THEN 1 ELSE IF x < b3 THEN 2 ELSE 3

\* pd.cut(x, bins=[0, b1, b2, b3, ...]) with right-closed bins, labels 0..3
Cut3(x, b1, b2, b3) ==
    IF x <= b1 THEN 0 ELSE IF x <= b2 THEN 1 ELSE IF x <= b3 THEN 2 ELSE 3

B2I(b) == IF b THEN 1 ELSE 0

\* the five derived columns of a row that carries every EngineerInputs column
DerivedFields(row) ==
    [bmi_category |-> Cut3(row.bmi, 185, 250, 300),
     cycle_irregular |-> B2I(row.cycle_length < 21 \/ row.cycle_length > 35),
     period_category |-> Cut3(row.period_length, 3, 7, 15),
     lifestyle_risk |-> B2I(row.exercise_frequency < 2) + B2I(row.stress_level > 3)
                        + B2I(row.sleep_quality < 3),
     age_group |-> Cut3(row.age, 18, 25, 35)]

NoDerived == [none |-> TRUE]

\* engineer_features on model state m: on any exception the data is returned
\* unchanged and self.feature_columns is left alone; otherwise the derived
\* columns are added and self.feature_columns is re-bound to the longer list
PcosEngineerFeatures(m, row) ==
    IF ~(EngineerInputs \subseteq ColumnsOf(row))
    THEN [engineered |-> FALSE, columns |-> ColumnsOf(row), derived |-> NoDerived,
          feature_columns |-> m.feature_columns]
    ELSE [engineered |-> TRUE,
          columns |-> ColumnsOf(row) \cup {NewFeatures[i] : i \in 1..Len(NewFeatures)},
          derived |-> DerivedFields(row),
          feature_columns |-> m.feature_columns \o NewFeatures]

\* preprocess_data: raises when a feature column is missing from the data;
\* otherwise the array has one column per entry of feature_columns
PreprocessData(feature_columns, columns) ==
    IF \E i \in 1..Len(feature_columns) : feature_columns[i] \notin columns
    THEN [ok |-> FALSE, width |-> 0]
    ELSE [ok |-> TRUE, width |-> Len(feature_columns)]

\* _get_risk_level over PCOS_RISK_LEVELS, scores in thousandths
PcosRiskLevels ==
    <<[level |-> "low", min |-> 0, max |-> 300],
      [level |-> "moderate", min |-> 300, max |-> 600],
      [level |-> "high", min |-> 600, max |-> 800],
      [level |-> "very_high", min |-> 800, max |-> 1000]>>

RECURSIVE RiskLevelFrom(_, _)
RiskLevelFrom(risk_score, i) ==
    IF i > Len(PcosRiskLevels) THEN "very_high"
    ELSE IF PcosRiskLevels[i].min <= risk_score /\ risk_score < PcosRiskLevels[i].max
         THEN PcosRiskLevels[i].level
         ELSE RiskLevelFrom(risk_score, i + 1)

\* buckets closed on both sides
GetRiskLevel_InclusiveMax(risk_score) ==
    IF risk_score <= 300 THEN "low"
    ELSE IF risk_score <= 600 THEN "moderate"
    ELSE IF risk_score <= 800 THEN "high"
    ELSE "very_high"

GetRiskLevel(risk_score) == RiskLevelFrom(risk_score, 1)

\* agreement and certainty averaged, in thousandths, before clipping
RawPcosConfidence(rf_proba, gb_proba) ==
    LET agreement == 1000 - Abs(rf_proba - gb_proba)
        certainty == Abs(rf_proba + gb_proba - 1000)
    IN (agreement + certainty) \div 2

\* _calculate_confidence
CalculateConfidence(rf_proba, gb_proba) == Clip01(RawPcosConfidence(rf_proba, gb_proba))

\* sample.get(key, default) on the engineered row
GetOr(row, f, default) == IF row[f] = Absent THEN default ELSE row[f]

\* _get_risk_factors with the stress rule at >= 3
GetRiskFactors_StressAtThree(row) ==
    (IF GetOr(row, "bmi", 0) > 250 THEN {"elevated_bmi"} ELSE {})
    \cup (IF GetOr(row, "cycle_length", 28) > 35 \/ GetOr(row, "cycle_length", 28) < 21
          THEN {"irregular_cycles"} ELSE {})
    \cup (IF GetOr(row, "family_history", 0) = 1 THEN {"family_history"} ELSE {})
    \cup (IF GetOr(row, "exercise_frequency", 3) < 2 THEN {"low_exercise"} ELSE {})
    \cup (IF GetOr(row, "stress_level", 2) >= 3 THEN {"high_stress"} ELSE {})
    \cup (IF GetOr(row, "sleep_quality", 3) < 3 THEN {"poor_sleep"} ELSE {})

\* _get_risk_factors with the bmi rule at >= 25
GetRiskFactors_InclusiveBmi(row) ==
    (IF GetOr(row, "bmi", 0) >= 250 THEN {"elevated_bmi"} ELSE {})
    \cup (IF GetOr(row, "cycle_length", 28) > 35 \/ GetOr(row, "cycle_length", 28) < 21
          THEN {"irregular_cycles"} ELSE {})
    \cup (IF GetOr(row, "family_history", 0) = 1 THEN {"family_history"} ELSE {})
    \cup (IF GetOr(row, "exercise_frequency", 3) < 2 THEN {"low_exercise"} ELSE {})
    \cup (IF GetOr(row, "stress_level", 2) > 3 THEN {"high_stress"} ELSE {})
    \cup (IF GetOr(row, "sleep_quality", 3) < 3 THEN {"poor_sleep"} ELSE {})

\* _get_risk_factors
GetRiskFactors(row) ==
    (IF GetOr(row, "bmi", 0) > 250 THEN {"elevated_bmi"} ELSE {})
    \cup (IF GetOr(row, "cycle_length", 28) > 35 \/ GetOr(row, "cycle_length", 28) < 21
          THEN {"irregular_cycles"} ELSE {})
    \cup (IF GetOr(row, "family_history", 0) = 1 THEN {"family_history"} ELSE {})
    \cup (IF GetOr(row, "exercise_frequency", 3) < 2 THEN {"low_exercise"} ELSE {})
    \cup (IF GetOr(row, "stress_level", 2) > 3 THEN {"high_stress"} ELSE {})
    \cup (IF GetOr(row, "sleep_quality", 3) < 3 THEN {"poor_sleep"} ELSE {})

\* the classifier pair of a bundle: class-1 probabilities in thousandths
PcosModel(k, rf, gb) == [kind |-> k, pRf |-> rf, pGb |-> gb]

\* self.model = None
NoPcosModel == PcosModel("none", 0, 0)

\* _initialize_default_model: two DummyClassifier(strategy='stratified',
\* random_state=42) fit on the same random labels; predict_proba is one-hot
\* and the same for both
DefaultProbas == {0, 1000}

\* a model file: the classifiers, the stored feature_columns and the number
\* of features its scaler was fit on
PcosBundle(rf, gb, cols, n) ==
    [model |-> PcosModel("bundle", rf, gb), feature_columns |-> cols, scaler_n |-> n]

NoPcosAux == [rf_proba |-> 0, gb_proba |-> 0, derived |-> NoDerived]

\* the result dictionary of PCOSRiskModel.predict
PcosResult(risk_score, rf_proba, gb_proba, row, nowv) ==
    [risk_score |-> risk_score,
     risk_level |-> GetRiskLevel(risk_score),
     confidence |-> CalculateConfidence(rf_proba, gb_proba),
     factors |-> GetRiskFactors(row),
     model_version |-> "1.0.0",
     timestamp |-> nowv]

\* predict after preprocess_data returned or raised pp
PcosPredictFromArray(m, row, e, pp, nowv) ==
    IF ~pp.ok
    THEN [ok |-> FALSE, cause |-> "missing_columns",
          steps |-> <<"engineer_features", "preprocess_data">>,
          value |-> NoValue, feature_columns |-> e.feature_columns,
          aux |-> [rf_proba |-> 0, gb_proba |-> 0, derived |-> e.derived]]
    ELSE IF pp.width # m.scaler_n
    THEN [ok |-> FALSE, cause |-> "scaler_shape",
          steps |-> <<"engineer_features", "preprocess_data", "scale">>,
          value |-> NoValue, feature_columns |-> e.feature_columns,
          aux |-> [rf_proba |-> 0, gb_proba |-> 0, derived |-> e.derived]]
    ELSE [ok |-> TRUE, cause |-> "none",
          steps |-> <<"engineer_features", "preprocess_data", "scale", "base_models">>,
          value |-> PcosResult((m.model.pRf + m.model.pGb) \div 2,
                               m.model.pRf, m.model.pGb, row, nowv),
          feature_columns |-> e.feature_columns,
          aux |-> [rf_proba |-> m.model.pRf, gb_proba |-> m.model.pGb,
                   derived |-> e.derived]]

\* predict after engineer_features returned e
PcosPredictFromFeatures(m, row, e, nowv) ==
    PcosPredictFromArray(m, row, e, PreprocessData(e.feature_columns, e.columns), nowv)

\* PCOSRiskModel.predict on model state m and a one-row frame: every
\* exception is re-raised as RuntimeError("Prediction failed: ...");
\* feature_columns is the value self.feature_columns has when predict ends
PcosModelPredict(m, row, nowv) ==
    IF ~m.is_trained \/ m.model = NoPcosModel
    THEN [ok |-> FALSE, cause |-> "not_trained", steps |-> <<>>, value |-> NoValue,
          feature_columns |-> m.feature_columns, aux |-> NoPcosAux]
    ELSE PcosPredictFromFeatures(m, row, PcosEngineerFeatures(m, row), nowv)

----------------------------------------------------------------------------
(* State *)

\* the wall clock when the process starts
Now0 == FromIso(<<2023, 5, 31>>)

\* the outcome of a call: what it returned or raised, the steps it ran, the
\* readiness of the predictor and the clock when it was made
Outcome(op, input, ready, outcome, exc, err, steps, value, aux, at) ==
    [op |-> op, input |-> input, ready |-> ready, outcome |-> outcome,
     exc |-> exc, err |-> err, steps |-> steps, value |-> value, aux |-> aux,
     at |-> at]

NoRes == Outcome("none", <<>>, FALSE, "none", "none", "none", <<>>, NoValue, NoAux, 0)

\* CyclePredictor.is_loaded / PCOSPredictor.is_loaded
IsLoaded(p) == p.loaded /\ p.is_trained

\* the parts of the PCOS model state that a load installs
Snapshot(p, set) ==
    [set |-> set, feature_columns |-> p.feature_columns, scaler_n |-> p.scaler_n,
     model |-> p.model]

Init ==
    /\ cyc = [loaded |-> FALSE, is_trained |-> FALSE, model |-> NoCycleModel]
    /\ pcos = [loaded |-> FALSE, is_trained |-> FALSE, model |-> NoPcosModel,
               feature_columns |-> BaseFeatureColumns, scaler_n |-> 0]
    /\ handler = [constructed |-> FALSE, models_loaded |-> FALSE]
    /\ now = Now0
    /\ res = NoRes
    /\ atLoad = Snapshot(pcos, FALSE)

----------------------------------------------------------------------------
(* Loading: CyclePredictionModel.load_model, PCOSRiskModel.load_model and  *)
(* the load_model wrappers of the two predictors                           *)

\* what the model path holds when load_model opens it
FileMissing == [kind |-> "missing", bundle |-> 0]

FileCorrupt == [kind |-> "corrupt", bundle |-> 0]

FileWith(n) == [kind |-> "bundle", bundle |-> n]

\* the bundles are numbered so that a file is named by a small integer
CycleBundleSeq ==
    <<CycleModel("bundle", 285, 285, 0, 285, 0),
      CycleModel("bundle", 0, 0, 0, 0, 0),
      CycleModel("bundle", 1000, 1000, 0, 1000, 0),
      CycleModel("bundle", 0 - 50, 0 - 50, 0, 1000, 0),
      CycleModel("bundle", 250, 290, 92, 100, 2)>>

PcosBundleSeq ==
    <<PcosBundle(100, 300, BaseFeatureColumns \o NewFeatures, 14),
      PcosBundle(100, 300, BaseFeatureColumns, 14),
      PcosBundle(1000, 1000, BaseFeatureColumns, 14),
      PcosBundle(0, 1000, BaseFeatureColumns, 14),
      PcosBundle(900, 700, BaseFeatureColumns, 14)>>

CycleFiles == {FileMissing, FileCorrupt} \cup {FileWith(n) : n \in 1..Len(CycleBundleSeq)}

PcosFiles == {FileMissing, FileCorrupt} \cup {FileWith(n) : n \in 1..Len(PcosBundleSeq)}

\* load_model raises RuntimeError("Model loading failed") for anything but
\* a readable bundle or a missing file
LoadRaises(file) == file.kind = "corrupt"

\* load_model with no fallback: a missing file is a failed load
CyclePredictorLoad_MissingFails(c, file, mean) ==
    IF file.kind = "bundle"
    THEN [loaded |-> TRUE, is_trained |-> TRUE, model |-> CycleBundleSeq[file.bundle]]
    ELSE [c EXCEPT !.loaded = FALSE]

\* CyclePredictionModel.load_model followed by the wrapper's bookkeeping;
\* mean is the constant the default regressors are fit to
CyclePredictorLoad(c, file, mean) ==
    IF file.kind = "bundle"
    THEN [loaded |-> TRUE, is_trained |-> TRUE, model |-> CycleBundleSeq[file.bundle]]
    ELSE IF file.kind = "missing"
    THEN [loaded |-> TRUE, is_trained |-> TRUE, model |-> DefaultCycleModel(mean)]
    ELSE [c EXCEPT !.loaded = FALSE]

\* PCOSRiskModel.load_model followed by the wrapper's bookkeeping; proba is
\* the one-hot output of the default classifiers
PcosPredictorLoad(p, file, proba) ==
    IF file.kind = "bundle"
    THEN [loaded |-> TRUE, is_trained |-> TRUE,
          model |-> PcosBundleSeq[file.bundle].model,
          feature_columns |-> PcosBundleSeq[file.bundle].feature_columns,
          scaler_n |-> PcosBundleSeq[file.bundle].scaler_n]
    ELSE IF file.kind = "missing"
    THEN [loaded |-> TRUE, is_trained |-> TRUE,
          model |-> PcosModel("default", proba, proba),
          feature_columns |-> p.feature_columns,
          scaler_n |-> Len(p.feature_columns)]
    ELSE [p EXCEPT !.loaded = FALSE]

LoadOutcome(op, file, at) ==
    IF LoadRaises(file)
    THEN Outcome(op, file, FALSE, "raised", "RuntimeError", "loading_failed",
                 <<>>, NoValue, NoAux, at)
    ELSE Outcome(op, file, FALSE, "returned", "none", "none", <<>>, NoValue, NoAux, at)

\* CyclePredictor.load_model(path)
LoadCycle(file, mean) ==
    /\ cyc' = CyclePredictorLoad(cyc, file, mean)
    /\ res' = LoadOutcome("cycle_load", file, now)
    /\ UNCHANGED <<pcos, handler, now, atLoad>>

\* PCOSPredictor.load_model(path)
LoadPcos(file, proba) ==
    /\ pcos' = PcosPredictorLoad(pcos, file, proba)
    /\ res' = LoadOutcome("pcos_load", file, now)
    /\ atLoad' = IF LoadRaises(file) THEN atLoad ELSE Snapshot(pcos', TRUE)
    /\ UNCHANGED <<cyc, handler, now>>

----------------------------------------------------------------------------
(* The predictors' predict methods *)

\* CyclePredictor.predict after self.model.predict returned or raised r;
\* pre is the steps predict ran before the call
CycleModelOutcome(c, cycles, pre, r, nowv) ==
    IF ~r.ok
    THEN Outcome("cycle_predict", cycles, IsLoaded(c), "raised", "RuntimeError",
                 "prediction_failed", pre \o r.steps, NoValue, r.aux, nowv)
    ELSE Outcome("cycle_predict", cycles, IsLoaded(c), "returned", "none", "none",
                 pre \o r.steps, r.value, r.aux, nowv)

\* CyclePredictor.predict with the input validated before the readiness check
CyclePredictOutcome_ValidateFirst(c, cycles, nowv) ==
    IF ~ValidateCycleInput(cycles).ok
    THEN Outcome("cycle_predict", cycles, IsLoaded(c), "raised", "ValueError",
                 "invalid_input", <<"validate">>, NoValue, NoAux, nowv)
    ELSE IF ~IsLoaded(c)
    THEN Outcome("cycle_predict", cycles, IsLoaded(c), "raised", "RuntimeError",
                 "not_loaded", <<"validate", "is_loaded">>, NoValue, NoAux, nowv)
    ELSE CycleModelOutcome(c, cycles, <<"validate", "is_loaded">>,
                           CycleModelPredict(c, cycles, nowv), nowv)

\* CyclePredictor.predict(cycle_history): the outcome of the call
CyclePredictOutcome(c, cycles, nowv) ==
    IF ~IsLoaded(c)
    THEN Outcome("cycle_predict", cycles, IsLoaded(c), "raised", "RuntimeError",
                 "not_loaded", <<"is_loaded">>, NoValue, NoAux, nowv)
    ELSE IF ~ValidateCycleInput(cycles).ok
    THEN Outcome("cycle_predict", cycles, IsLoaded(c), "raised", "ValueError",
                 "invalid_input", <<"is_loaded", "validate">>, NoValue, NoAux, nowv)
    ELSE CycleModelOutcome(c, cycles, <<"is_loaded", "validate">>,
                           CycleModelPredict(c, cycles, nowv), nowv)

CyclePredict(cycles) ==
    /\ res' = CyclePredictOutcome(cyc, cycles, now)
    /\ UNCHANGED <<cyc, pcos, handler, now, atLoad>>

\* CyclePredictionModel.engineer_features(cycles), called on its own
EngineerOutcome(c, cycles, e, nowv) ==
    IF e.ok
    THEN Outcome("cycle_engineer", cycles, IsLoaded(c), "returned", "none", "none",
                 <<"process_cycle_data">>, e.features, NoAux, nowv)
    ELSE Outcome("cycle_engineer", cycles, IsLoaded(c), "raised", "ValueError",
                 "feature_engineering_failed", <<"process_cycle_data">>,
                 NoValue, NoAux, nowv)

CycleEngineer(cycles) ==
    /\ res' = EngineerOutcome(cyc, cycles, EngineerFeatures(cycles, now), now)
    /\ UNCHANGED <<cyc, pcos, handler, now, atLoad>>

\* PCOSPredictor.predict after self.model.predict returned or raised r
PcosModelOutcome(p, user_data, pre, r, nowv) ==
    [state |-> [p EXCEPT !.feature_columns = r.feature_columns],
     out |-> IF r.ok
             THEN Outcome("pcos_predict", user_data, IsLoaded(p), "returned",
                          "none", "none", pre \o r.steps, r.value, r.aux, nowv)
             ELSE Outcome("pcos_predict", user_data, IsLoaded(p), "raised",
                          "RuntimeError", "prediction_failed",
                          pre \o r.steps, NoValue, r.aux, nowv)]

\* PCOSPredictor.predict from the sanitized input on
PcosPredictSanitized(p, user_data, sanitized_data, nowv) ==
    IF ~ValidatePcosInput(sanitized_data).ok
    THEN [state |-> p,
          out |-> Outcome("pcos_predict", user_data, IsLoaded(p), "raised",
                          "ValueError", "invalid_input",
                          <<"is_loaded", "sanitize", "validate">>,
                          NoValue, NoPcosAux, nowv)]
    ELSE PcosModelOutcome(p, user_data, <<"is_loaded", "sanitize", "validate">>,
                          PcosModelPredict(p, sanitized_data, nowv), nowv)

\* PCOSPredictor.predict(user_data): the outcome and the model state it leaves
PcosPredictOutcome(p, user_data, nowv) ==
    IF ~IsLoaded(p)
    THEN [state |-> p,
          out |-> Outcome("pcos_predict", user_data, IsLoaded(p), "raised", "RuntimeError",
                          "not_loaded", <<"is_loaded">>, NoValue, NoPcosAux, nowv)]
    ELSE PcosPredictSanitized(p, user_data, SanitizeInputData(user_data), nowv)

\* feature_columns grows by five names per call: the model explores it up
\* to MaxGrow extensions of the base list
CanGrow(p) == Len(p.feature_columns) < Len(BaseFeatureColumns) + 5 * MaxGrow

PcosPredict(user_data) ==
    /\ CanGrow(pcos)
    /\ pcos' = PcosPredictOutcome(pcos, user_data, now).state
    /\ res' = PcosPredictOutcome(pcos, user_data, now).out
    /\ UNCHANGED <<cyc, handler, now, atLoad>>

\* the wall clock advances by a day
Tick ==
    /\ now < Now0 + MaxTicks
    /\ now' = now + 1
    /\ UNCHANGED <<cyc, pcos, handler, res, atLoad>>

----------------------------------------------------------------------------
(* The coordinator: MLAPIHandler (inference/api_handler.py) *)

\* MLAPIHandler.__init__ / _load_models: the PCOS model is loaded first, then
\* the cycle model; an exception of either load leaves models_loaded False
\* and propagates out of the constructor
HandlerConstruct(fileP, proba, fileC, mean) ==
    /\ ~handler.constructed
    /\ pcos' = PcosPredictorLoad(pcos, fileP, proba)
    /\ atLoad' = IF LoadRaises(fileP) THEN atLoad ELSE Snapshot(pcos', TRUE)
    /\ cyc' = IF LoadRaises(fileP) THEN cyc ELSE CyclePredictorLoad(cyc, fileC, mean)
    /\ LET ok == ~LoadRaises(fileP) /\ ~LoadRaises(fileC)
       IN /\ handler' = [constructed |-> ok, models_loaded |-> ok]
          /\ res' = IF ok
                    THEN Outcome("handler_init", <<fileP, fileC>>, FALSE, "returned",
                                 "none", "none", <<>>, NoValue, NoAux, now)
                    ELSE Outcome("handler_init", <<fileP, fileC>>, FALSE, "raised",
                                 "RuntimeError", "loading_failed", <<>>, NoValue,
                                 NoAux, now)
    /\ UNCHANGED now

\* the dictionary health_check builds: status from the models_loaded flag set
\* by the constructor, the per-model flags from the predictors' is_loaded()
HealthStatus(h, p, c) ==
    [status |-> IF h.models_loaded THEN "healthy" ELSE "unhealthy",
     pcos_risk |-> IsLoaded(p),
     cycle_prediction |-> IsLoaded(c),
     message |-> ~h.models_loaded,
     version |-> "1.0.0"]

\* the /health route: 200 for a healthy status, 503 otherwise
HealthStatusCode(health_status) == IF health_status.status = "healthy" THEN 200 ELSE 503

\* the response of the /health route: the body and its status code
HealthResponse(health_status) ==
    [body |-> health_status, status_code |-> HealthStatusCode(health_status)]

\* MLAPIHandler.health_check as served by the health route
HealthCheck ==
    /\ handler.constructed
    /\ res' = Outcome("health_check", <<>>, handler.models_loaded, "returned", "none",
                      "none", <<>>, HealthResponse(HealthStatus(handler, pcos, cyc)),
                      NoAux, now)
    /\ UNCHANGED <<cyc, pcos, handler, now, atLoad>>

\* the methods class ModelValidator defines (utils/validation_utils.py);
\* model_validator is an instance of it
ModelValidatorMethods == {"validate_model_performance", "validate_prediction_consistency"}

\* predict_pcos_risk / predict_next_cycle after the predictor returned
\* prediction: the output check is looked up on model_validator, then the
\* result is enriched and returned
CoordFinish(op, input, inner, enrichment, nowv) ==
    IF "validate_model_output" \notin ModelValidatorMethods
    THEN Outcome(op, input, TRUE, "raised", "AttributeError", "no_such_method",
                 <<"is_loaded", "predict">>, NoValue, inner.aux, nowv)
    ELSE Outcome(op, input, TRUE, "returned", "none", "none",
                 <<"is_loaded", "predict", "validate_output", "enrich">>,
                 [prediction |-> inner.value, enrichment |-> enrichment,
                  timestamp |-> nowv, model_version |-> "1.0.0"],
                 inner.aux, nowv)

\* the try/except of both coordinator methods: every exception is logged
\* and re-raised
CoordOutcome(op, input, ready, inner, enrichment, nowv) ==
    IF ~ready
    THEN Outcome(op, input, FALSE, "raised", "RuntimeError", "not_loaded",
                 <<"is_loaded">>, NoValue, inner.aux, nowv)
    ELSE IF inner.outcome = "raised"
    THEN Outcome(op, input, TRUE, "raised", inner.exc, inner.err,
                 <<"is_loaded", "predict">>, NoValue, inner.aux, nowv)
    ELSE CoordFinish(op, input, inner, enrichment, nowv)

\* MLAPIHandler.predict_next_cycle(cycle_history)
CoordPredictNextCycle(cycles) ==
    /\ handler.constructed
    /\ res' = CoordOutcome("coord_predict_cycle", cycles, IsLoaded(cyc),
                           CyclePredictOutcome(cyc, cycles, now), "insights", now)
    /\ UNCHANGED <<cyc, pcos, handler, now, atLoad>>

\* MLAPIHandler.predict_pcos_risk(user_data)
CoordPredictPcosRisk(user_data) ==
    /\ handler.constructed
    /\ CanGrow(pcos)
    /\ pcos' = PcosPredictOutcome(pcos, user_data, now).state
    /\ res' = CoordOutcome("coord_predict_pcos", user_data, IsLoaded(pcos),
                           PcosPredictOutcome(pcos, user_data, now).out,
                           "recommendations", now)
    /\ UNCHANGED <<cyc, handler, now, atLoad>>

----------------------------------------------------------------------------
(* The validator's methods called on their own *)

\* what a validator call returned
ValidatorOutcome(op, input, value, nowv) ==
    Outcome(op, input, FALSE, "returned", "none", "none", <<>>, value, NoAux, nowv)

\* what a call raised
RaisedOutcome(op, input, exc, err, nowv) ==
    Outcome(op, input, FALSE, "raised", exc, err, <<>>, NoValue, NoAux, nowv)

\* DataValidator.validate_pcos_input(data), data carrying 'symptoms'
ApplyValidatePcos(data, symptoms) ==
    /\ res' = IF ValidatePcosRaises(symptoms)
              THEN RaisedOutcome("validate_pcos_input", <<data, symptoms>>,
                                 "TypeError", "not_iterable", now)
              ELSE ValidatorOutcome("validate_pcos_input", <<data, symptoms>>,
                                    ValidatePcosWithSymptoms(data, symptoms), now)
    /\ UNCHANGED <<cyc, pcos, handler, now, atLoad>>

\* DataValidator.validate_cycle_input(data)
ApplyValidateCycle(data) ==
    /\ res' = IF Len(data) > 0 /\ ValidateCycleRaises(data)
              THEN RaisedOutcome("validate_cycle_input", data,
                                 "OverflowError", "int_overflow", now)
              ELSE ValidatorOutcome("validate_cycle_input", data,
                                    ValidateCycleInput(data), now)
    /\ UNCHANGED <<cyc, pcos, handler, now, atLoad>>

\* DataValidator.validate_symptom_input(data)
ApplyValidateSymptom(data) ==
    /\ res' = ValidatorOutcome("validate_symptom_input", data,
                               ValidateSymptomInput(data), now)
    /\ UNCHANGED <<cyc, pcos, handler, now, atLoad>>

\* SymptomAnalysisModel.process_symptom_data(symptoms)
ApplyProcessSymptomData(symptoms) ==
    /\ res' = IF ProcessSymptomRaises(symptoms)
              THEN RaisedOutcome("process_symptom_data", symptoms,
                                 "ValueError", "processing_failed", now)
              ELSE ValidatorOutcome("process_symptom_data", symptoms,
                                    [rows |-> ProcessSymptomData(symptoms)], now)
    /\ UNCHANGED <<cyc, pcos, handler, now, atLoad>>

\* DataValidator.validate_model_output(output, model_type)
ApplyValidateModelOutput(output, model_type) ==
    /\ res' = ValidatorOutcome("validate_model_output", <<output, model_type>>,
                               ValidateModelOutput(output, model_type), now)
    /\ UNCHANGED <<cyc, pcos, handler, now, atLoad>>

----------------------------------------------------------------------------
(* Pure functions of the PCOS model applied on their own *)

\* PCOSRiskModel._get_risk_level(risk_score)
ApplyGetRiskLevel(risk_score) ==
    /\ res' = Outcome("get_risk_level", risk_score, FALSE, "returned", "none", "none",
                      <<>>, [risk_level |-> GetRiskLevel(risk_score)], NoPcosAux, now)
    /\ UNCHANGED <<cyc, pcos, handler, now, atLoad>>

\* PCOSRiskModel._calculate_confidence(rf_proba, gb_proba)
ApplyCalculateConfidence(rf_proba, gb_proba) ==
    /\ res' = Outcome("calculate_confidence", <<rf_proba, gb_proba>>, FALSE, "returned",
                      "none", "none", <<>>,
                      [confidence |-> CalculateConfidence(rf_proba, gb_proba)],
                      NoPcosAux, now)
    /\ UNCHANGED <<cyc, pcos, handler, now, atLoad>>

\* PCOSRiskModel.predict called on the model itself, after it returned or
\* raised r; ready records whether the model was trained when called
DirectPredictOutcome(p, X, r, nowv) ==
    [state |-> [p EXCEPT !.feature_columns = r.feature_columns],
     out |-> IF r.ok
             THEN Outcome("pcos_model_predict", X, p.is_trained /\ p.model # NoPcosModel,
                          "returned", "none", "none", r.steps, r.value, r.aux, nowv)
             ELSE Outcome("pcos_model_predict", X, p.is_trained /\ p.model # NoPcosModel,
                          "raised", "RuntimeError", "prediction_failed", r.steps,
                          NoValue, r.aux, nowv)]

\* PCOSRiskModel.predict(X) on a one-row frame
ApplyPcosModelPredict(X) ==
    /\ CanGrow(pcos)
    /\ pcos' = DirectPredictOutcome(pcos, X, PcosModelPredict(pcos, X, now), now).state
    /\ res' = DirectPredictOutcome(pcos, X, PcosModelPredict(pcos, X, now), now).out
    /\ UNCHANGED <<cyc, handler, now, atLoad>>

\* PCOSRiskModel.engineer_features on the one-row frame of user_data: the
\* derived columns, and self.feature_columns extended when it succeeds
ApplyPcosEngineer(user_data) ==
    /\ CanGrow(pcos)
    /\ pcos' = [pcos EXCEPT
                  !.feature_columns = PcosEngineerFeatures(pcos, user_data).feature_columns]
    /\ res' = Outcome("pcos_engineer", user_data, IsLoaded(pcos), "returned", "none",
                      "none", <<>>,
                      [engineered |-> PcosEngineerFeatures(pcos, user_data).engineered,
                       derived |-> PcosEngineerFeatures(pcos, user_data).derived],
                      NoPcosAux, now)
    /\ UNCHANGED <<cyc, handler, now, atLoad>>

\* PCOSRiskModel._get_risk_factors(sample)
ApplyGetRiskFactors(sample) ==
    /\ res' = Outcome("get_risk_factors", sample, FALSE, "returned", "none", "none",
                      <<>>, [factors |-> GetRiskFactors(sample)], NoPcosAux, now)
    /\ UNCHANGED <<cyc, pcos, handler, now, atLoad>>

----------------------------------------------------------------------------
(* The HTTP layer: api/middleware/auth.py, api/middleware/validation.py and *)
(* api/routes/prediction.py                                                *)

\* a JWT as jwt.decode sees it: whether the signature verifies, whether it
\* has expired, and its 'role' claim (NoRole when the payload has none)
Token(sig_ok, expired, role) == [sig_ok |-> sig_ok, expired |-> expired, role |-> role]

\* no 'role' in the payload, no user_role on the request
NoRole == "<no role>"

\* extract_token_from_header returned None
NoToken == [sig_ok |-> FALSE, expired |-> FALSE, role |-> "<no token>"]

\* the Authorization header: missing, or a text that is empty or splits into
\* n_parts words, the first being scheme and the second a token
NoHeader == [present |-> FALSE, empty |-> TRUE, scheme |-> "", n_parts |-> 0, token |-> NoToken]

HeaderText(scheme, n_parts, token) ==
    [present |-> TRUE, empty |-> FALSE, scheme |-> scheme, n_parts |-> n_parts,
     token |-> token]

EmptyHeader == [present |-> TRUE, empty |-> TRUE, scheme |-> "", n_parts |-> 0, token |-> NoToken]

\* str.lower() on the schemes that occur
Lower(s) ==
    IF s \in {"Bearer", "bearer", "BEARER"} THEN "bearer"
    ELSE IF s \in {"Token", "token"} THEN "token"
    ELSE s

\* extract_token_from_header(auth_header)
ExtractTokenFromHeader(auth_header) ==
    IF ~auth_header.present \/ auth_header.empty THEN NoToken
    ELSE IF auth_header.n_parts # 2 \/ Lower(auth_header.scheme) # "bearer" THEN NoToken
    ELSE auth_header.token

\* verify_jwt_token(token): the payload, or AuthenticationError; jwt.decode
\* checks the signature before the expiry
VerifyJwtToken(token) ==
    IF ~token.sig_ok THEN [ok |-> FALSE, message |-> "Invalid token", role |-> NoRole]
    ELSE IF token.expired
    THEN [ok |-> FALSE, message |-> "Token has expired", role |-> NoRole]
    ELSE [ok |-> TRUE, message |-> "", role |-> token.role]

\* request.user_role = payload.get('role', 'user')
UserRole(payload) == IF payload.role = NoRole THEN "user" ELSE payload.role

\* a response: its status code, the functions that ran in call order, the
\* PCOS model state the request left behind and request.user_role
Response(status_code, steps, p, user_role) ==
    [status_code |-> status_code, steps |-> steps, pcos |-> p, user_role |-> user_role]

\* the response of a wrapped function seen through the decorator name
Through(name, inner) == [inner EXCEPT !.steps = <<name>> \o inner.steps]

\* require_auth letting every request with a token through
RequireAuth_NoVerify(auth_header, p, inner) ==
    IF ~auth_header.present \/ auth_header.empty
    THEN Response(401, <<"require_auth">>, p, NoRole)
    ELSE [inner EXCEPT !.steps = <<"require_auth">> \o inner.steps,
                       !.user_role = UserRole(auth_header.token)]

\* require_auth(f): 401 without a header, with a header that yields no token
\* and with a token that does not verify; otherwise the wrapped function
RequireAuth(auth_header, p, inner) ==
    IF ~auth_header.present \/ auth_header.empty
    THEN Response(401, <<"require_auth">>, p, NoRole)
    ELSE IF ExtractTokenFromHeader(auth_header) = NoToken
    THEN Response(401, <<"require_auth">>, p, NoRole)
    ELSE IF ~VerifyJwtToken(ExtractTokenFromHeader(auth_header)).ok
    THEN Response(401, <<"require_auth">>, p, NoRole)
    ELSE [inner EXCEPT !.steps = <<"require_auth">> \o inner.steps,
                       !.user_role =
                           UserRole(VerifyJwtToken(ExtractTokenFromHeader(auth_header)))]

\* validate_json_request(f)
ValidateJsonRequest(is_json, p, inner) ==
    IF ~is_json THEN Response(400, <<"validate_json_request">>, p, NoRole)
    ELSE Through("validate_json_request", inner)

\* the status the route bodies give to the coordinator's outcome
BodyStatus(outcome) ==
    IF outcome.outcome = "returned" THEN 200
    ELSE IF outcome.exc = "ValueError" THEN 400
    ELSE IF outcome.exc = "RuntimeError" THEN 503
    ELSE 500

\* sanitize_request_data(f) around a route body that calls ml_handler
BodyResponse(name, outcome, p) ==
    Response(BodyStatus(outcome), <<"sanitize_request_data", name, "ml_handler">>, p, NoRole)

\* predict_pcos_risk(): the route body on request.validated_data
PcosRiskBody(p, user_data, inner) ==
    BodyResponse("predict_pcos_risk",
                 CoordOutcome("coord_predict_pcos", user_data, IsLoaded(p), inner.out,
                              "recommendations", inner.out.at),
                 inner.state)

\* validate_pcos_prediction_request(f)
ValidatePcosPredictionRequest(p, data, nowv) ==
    IF ColumnsOf(data) = {}
    THEN Response(400, <<"validate_pcos_prediction_request">>, p, NoRole)
    ELSE IF ~ValidatePcosInput(SanitizeInputData(data)).ok
    THEN Response(400, <<"validate_pcos_prediction_request">>, p, NoRole)
    ELSE Through("validate_pcos_prediction_request",
                 PcosRiskBody(p, SanitizeInputData(data),
                              PcosPredictOutcome(p, SanitizeInputData(data), nowv)))

\* POST /api/predict/pcos-risk: log_request_info, require_auth,
\* validate_json_request, validate_pcos_prediction_request,
\* sanitize_request_data, then the body
PcosRiskRoute(auth_header, is_json, data, p, nowv) ==
    Through("log_request_info",
            RequireAuth(auth_header, p,
                        ValidateJsonRequest(is_json, p,
                                            ValidatePcosPredictionRequest(p, data, nowv))))

\* predict_next_cycle(): the route body
NextCycleBody(c, p, cycles, nowv) ==
    BodyResponse("predict_next_cycle",
                 CoordOutcome("coord_predict_cycle", cycles, IsLoaded(c),
                              CyclePredictOutcome(c, cycles, nowv), "insights", nowv),
                 p)

\* validate_cycle_prediction_request(f): an exception of the validator is
\* answered with 500
ValidateCyclePredictionRequest(c, p, cycles, nowv) ==
    IF Len(cycles) = 0
    THEN Response(400, <<"validate_cycle_prediction_request">>, p, NoRole)
    ELSE IF ValidateCycleRaises(cycles)
    THEN Response(500, <<"validate_cycle_prediction_request">>, p, NoRole)
    ELSE IF ~ValidateCycleInput(cycles).ok
    THEN Response(400, <<"validate_cycle_prediction_request">>, p, NoRole)
    ELSE Through("validate_cycle_prediction_request", NextCycleBody(c, p, cycles, nowv))

\* POST /api/predict/next-cycle
NextCycleRoute(auth_header, is_json, cycles, c, p, nowv) ==
    Through("log_request_info",
            RequireAuth(auth_header, p,
                        ValidateJsonRequest(is_json, p,
                                            ValidateCyclePredictionRequest(c, p, cycles, nowv))))

\* what a request was answered with
HttpOutcome(op, input, response, ready, nowv) ==
    Outcome(op, input, ready, "returned", "none", "none", response.steps,
            [status_code |-> response.status_code, user_role |-> response.user_role],
            NoAux, nowv)

\* an endpoint body that returns (response, body_status)
AdminBody(p, body_status) == Response(body_status, <<"body">>, p, NoRole)

\* require_admin after require_auth(f)(*args) returned auth_result: a
\* result that is not a 200 is returned as it is, a role other than admin
\* gets 403, and an admin gets f(*args) called again
AdminDecision(auth_result, p, body_status) ==
    IF auth_result.status_code # 200 THEN Through("require_admin", auth_result)
    ELSE IF auth_result.user_role # "admin"
    THEN Response(403, <<"require_admin">> \o auth_result.steps, p, auth_result.user_role)
    ELSE Response(body_status, <<"require_admin">> \o auth_result.steps \o <<"body">>, p,
                  auth_result.user_role)

\* require_admin(f)
RequireAdmin(auth_header, p, body_status) ==
    AdminDecision(RequireAuth(auth_header, p, AdminBody(p, body_status)), p, body_status)

\* a request to POST /api/predict/pcos-risk
HttpPredictPcosRisk(auth_header, is_json, data) ==
    /\ handler.constructed
    /\ CanGrow(pcos)
    /\ pcos' = PcosRiskRoute(auth_header, is_json, data, pcos, now).pcos
    /\ res' = HttpOutcome("http_pcos_risk", <<auth_header, is_json, data>>,
                          PcosRiskRoute(auth_header, is_json, data, pcos, now),
                          IsLoaded(pcos), now)
    /\ UNCHANGED <<cyc, handler, now, atLoad>>

\* a request to POST /api/predict/next-cycle
HttpPredictNextCycle(auth_header, is_json, cycles) ==
    /\ handler.constructed
    /\ res' = HttpOutcome("http_next_cycle", <<auth_header, is_json, cycles>>,
                          NextCycleRoute(auth_header, is_json, cycles, cyc, pcos, now),
                          IsLoaded(cyc), now)
    /\ UNCHANGED <<cyc, pcos, handler, now, atLoad>>

----------------------------------------------------------------------------

\* a request to an endpoint wrapped by require_admin
HttpAdminRequest(auth_header, body_status) ==
    /\ res' = HttpOutcome("http_admin", <<auth_header, body_status>>,
                          RequireAdmin(auth_header, pcos, body_status), FALSE, now)
    /\ UNCHANGED <<cyc, pcos, handler, now, atLoad>>

----------------------------------------------------------------------------
(* Inputs *)

D0101 == <<2023, 1, 1>>

D0129 == <<2023, 1, 29>>

D0228 == <<2023, 2, 28>>

D0425 == <<2023, 4, 25>>

\* the records cycle histories are built from
RecordPool ==
    { CycleRec(D0101, 28, 5),
      CycleRec(D0129, 30, 4),
      CycleRec(D0228, 27, 6),
      CycleRec(D0228, 45, Absent),
      CycleRec(D0425, 21, 5),
      CycleRec(BadDate, 28, 5) }

RECURSIVE SeqsUpTo(_, _)
SeqsUpTo(S, n) ==
    IF n = 0 THEN {<<>>}
    ELSE LET shorter == SeqsUpTo(S, n - 1)
         IN shorter \cup {Append(h, r) : h \in {x \in shorter : Len(x) = n - 1}, r \in S}

\* scenario A of the specification
ScenarioA == <<CycleRec(D0101, 28, 5), CycleRec(D0129, 30, 4), CycleRec(D0228, 27, 6)>>

\* histories beyond the pool: a longer one, the same in another order, one
\* out of range, one with a missing field
SpecialHistories ==
    { ScenarioA,
      <<CycleRec(D0228, 27, 6), CycleRec(D0101, 28, 5), CycleRec(D0129, 30, 4)>>,
      <<CycleRec(D0101, 28, 5), CycleRec(D0129, 30, 4), CycleRec(D0228, 27, 6),
        CycleRec(<<2023, 3, 27>>, 29, 5), CycleRec(D0425, 35, 5)>>,
      <<CycleRec(D0129, 46, 5)>>,
      <<CycleRec(NoDate, 28, 5)>>,
      <<CycleRec(D0129, Absent, 5)>> }

CycleHistories == SeqsUpTo(RecordPool, MaxLen) \cup SpecialHistories

\* histories engineer_features is called on directly: every date parses and
\* either every record carries cycle_length or none does
EngineerHistories ==
    {h \in CycleHistories :
        /\ Len(h) > 0
        /\ \A i \in 1..Len(h) : ValidDate(h[i].start_date)
        /\ \A i \in 1..Len(h) : h[i].cycle_length # Absent}
    \cup { <<CycleRec(D0129, Absent, Absent)>>,
           <<CycleRec(D0129, Absent, 4), CycleRec(D0101, Absent, Absent)>> }

\* scenario B of the specification (it has no symptom_count)
ScenarioB == Profile(25, 225, 28, 5, 3, 2, 3, 0, Absent)

Profiles ==
    { ScenarioB,
      Profile(25, 225, 28, 5, 3, 2, 3, 0, 0),
      Profile(30, 280, 40, 4, 1, 4, 2, 1, 2),
      Profile(70, 225, 28, 5, 3, 2, 3, 0, 0),
      Profile(Null, 225, 28, 5, 3, 2, 3, 0, 0),
      Profile(25, 225, 28, 5, Absent, Absent, Absent, Absent, Absent) }

\* profiles that fire the risk-factor rules one at a time, and the values
\* on the edge of each rule
FactorProfiles ==
    { Profile(25, 260, 28, 5, 3, 2, 3, 0, 0),
      Profile(25, 250, 28, 5, 3, 2, 3, 0, 0),
      Profile(25, 225, 36, 5, 3, 2, 3, 0, 0),
      Profile(25, 225, 35, 5, 3, 2, 3, 0, 0),
      Profile(25, 225, 21, 5, 3, 2, 3, 0, 0),
      Profile(25, 225, 28, 5, 3, 2, 3, 1, 0),
      Profile(25, 225, 28, 5, 1, 2, 3, 0, 0),
      Profile(25, 225, 28, 5, 2, 2, 3, 0, 0),
      Profile(25, 225, 28, 5, 3, 4, 3, 0, 0),
      Profile(25, 225, 28, 5, 3, 3, 3, 0, 0),
      Profile(25, 225, 28, 5, 3, 2, 2, 0, 0),
      Profile(30, 280, 40, 4, 0, 5, 1, 1, 2) }

\* profiles handed to engineer_features directly: scenario B, the values
\* around each bin edge, the risk-factor profiles and a profile without the
\* lifestyle fields
EngineerProfiles ==
    { [ScenarioB EXCEPT !.bmi = b] : b \in {184, 185, 186, 250, 251, 300, 301} }
    \cup { [ScenarioB EXCEPT !.age = a] : a \in {17, 18, 19, 25, 26, 35, 36} }
    \cup { [ScenarioB EXCEPT !.period_length = p] : p \in {3, 4, 7, 8} }
    \cup FactorProfiles
    \cup { ScenarioB, Profile(25, 225, 28, 5, Absent, Absent, Absent, Absent, Absent) }

\* risk scores in thousandths, the whole of [0,1]
RiskScores == 0..1000

\* base-model probabilities handed to _calculate_confidence, some of them
\* outside [0,1]
Probas == {0 - 500, 0, 100, 250, 300, 500, 700, 750, 900, 1000, 1500}

\* inputs of the coordinator
CoordHistories == {<<>>, <<CycleRec(D0101, 28, 5)>>, ScenarioA, <<CycleRec(BadDate, 28, 5)>>}

CoordProfiles ==
    { Profile(25, 225, 28, 5, 3, 2, 3, 0, 0), Profile(70, 225, 28, 5, 3, 2, 3, 0, 0) }

\* Authorization headers: none, empty, blank, one word, a scheme other than
\* Bearer, three words, and Bearer tokens that are forged, expired or valid
AuthHeaders ==
    { NoHeader, EmptyHeader,
      HeaderText("", 0, NoToken),
      HeaderText("Bearer", 1, NoToken),
      HeaderText("Token", 2, Token(TRUE, FALSE, "admin")),
      HeaderText("Bearer", 3, Token(TRUE, FALSE, "admin")),
      HeaderText("Bearer", 2, Token(FALSE, FALSE, "admin")),
      HeaderText("Bearer", 2, Token(FALSE, TRUE, "user")),
      HeaderText("Bearer", 2, Token(TRUE, TRUE, "admin")),
      HeaderText("Bearer", 2, Token(TRUE, FALSE, "user")),
      HeaderText("bearer", 2, Token(TRUE, FALSE, NoRole)),
      HeaderText("Bearer", 2, Token(TRUE, FALSE, "admin")) }

\* request bodies of /api/predict/pcos-risk: an empty object among them
HttpProfiles ==
    { Profile(25, 225, 28, 5, 3, 2, 3, 0, 0),
      Profile(70, 225, 28, 5, 3, 2, 3, 0, 0),
      ScenarioB,
      Profile(Absent, Absent, Absent, Absent, Absent, Absent, Absent, Absent, Absent) }

\* the 'cycles' list of request bodies of /api/predict/next-cycle
HttpHistories ==
    CoordHistories \cup {<<CycleRec(D0101, Infinity, 5)>>, <<CycleRec(D0101, 50, 5)>>}

\* the status codes an endpoint body returns with its response
BodyStatuses == {200, 202}

\* model outputs handed to validate_model_output: scores in thousandths,
\* some keys left out
PcosOutputs ==
    { [risk_score |-> s, risk_level |-> "low", confidence |-> c] :
        s \in {0 - 100, 0, 500, 1000, 1100, Null, NotANumber},
        c \in {0 - 100, 0, 500, 1000, 1500} }
    \cup { [risk_level |-> "low", confidence |-> 500],
           [risk_score |-> 500, confidence |-> 500],
           [risk_score |-> 500, risk_level |-> "high"],
           [risk_score |-> 1100, risk_level |-> "high"] }

CycleOutputs ==
    { [predicted_start_date |-> <<2023, 3, 27>>, predicted_cycle_length |-> n,
       confidence |-> c] :
        n \in {20, 21, 28, 45, 46}, c \in {0 - 100, 0, 500, 1000, 1500} }
    \cup { [predicted_cycle_length |-> 28, confidence |-> 500],
           [predicted_start_date |-> <<2023, 3, 27>>, confidence |-> 500],
           [predicted_start_date |-> <<2023, 3, 27>>, predicted_cycle_length |-> 28] }

\* a date more than 30 days after the clock, and one years after it
D0801 == <<2023, 8, 1>>

D2030 == <<2030, 1, 1>>

\* cycle records handed to validate_cycle_input: fields missing, None,
\* wrongly typed, out of range, dated in the future
ValidatorRecordPool ==
    { CycleRec(D0101, 28, 5),
      CycleRec(D0801, 28, 5),
      CycleRec(D2030, 30, 4),
      CycleRec(BadDate, 28, 5),
      CycleRec(NoDate, 28, 5),
      CycleRec(NullDate, 28, 5),
      CycleRec(D0101, Absent, 5),
      CycleRec(D0101, Null, 5),
      CycleRec(D0101, NotANumber, 5),
      CycleRec(D0101, Infinity, 5),
      CycleRec(D0129, 46, 5),
      CycleRec(D0129, 20, 5) }

ValidatorHistories == SeqsUpTo(ValidatorRecordPool, MaxLen)

\* profiles handed to validate_pcos_input: each ranged field below and above
\* its documented range, fields missing, None and wrongly typed
ValidatorProfiles ==
    Profiles
    \cup { Profile(11, 225, 28, 5, 3, 2, 3, 0, 0),
           Profile(25, 99, 28, 5, 3, 2, 3, 0, 0),
           Profile(25, 501, 28, 5, 3, 2, 3, 0, 0),
           Profile(25, 225, 20, 5, 3, 2, 3, 0, 0),
           Profile(25, 225, 46, 5, 3, 2, 3, 0, 0),
           Profile(25, 225, 28, 0, 3, 2, 3, 0, 0),
           Profile(25, 225, 28, 11, 3, 2, 3, 0, 0),
           Profile(25, 225, 28, 5, 8, 2, 3, 0, 0),
           Profile(25, 225, 28, 5, 3, 0, 3, 0, 0),
           Profile(25, 225, 28, 5, 3, 9, 3, 0, 0),
           Profile(25, 225, 28, 5, 3, 2, 0, 0, 0),
           Profile(25, 225, 28, 5, 3, 2, 5, 0, 0),
           Profile(NotANumber, 225, 28, 5, 3, 2, 3, 0, 0),
           Profile(25, Absent, 28, 5, 3, 2, 3, 0, 0) }

ValidatorSymptoms ==
    { NoSymptoms, NullSymptoms, SymptomList(<<>>), SymptomList(<<"cramps">>),
      SymptomList(<<"cramps", "migraine">>), SymptomNumber(0), SymptomNumber(5) }

\* symptom records; scenario D of the specification is the "migraine" one
SymptomRecordPool ==
    { SymptomRec("cramps", 5, D0101),
      SymptomRec("migraine", 5, D0129),
      SymptomRec("other", 1, D0228),
      SymptomRec("headache", 10, D0801),
      SymptomRec("cramps", 0, D0101),
      SymptomRec("cramps", 11, D0101),
      SymptomRec("cramps", NotANumber, D0101),
      SymptomRec(NoType, 5, D0101),
      SymptomRec(NullType, 5, D0101),
      SymptomRec("cramps", Absent, D0101),
      SymptomRec("cramps", 5, BadDate),
      SymptomRec("cramps", 5, NoDate),
      SymptomRec("fatigue", 5, NullDate) }

SymptomLists == SeqsUpTo(SymptomRecordPool, MaxLen)

----------------------------------------------------------------------------
(* Specifications *)

LoadCycleAny == \E file \in CycleFiles, mean \in DefaultMeans : LoadCycle(file, mean)

LoadPcosAny == \E file \in PcosFiles, proba \in DefaultProbas : LoadPcos(file, proba)

CyclePredictAny == \E cycles \in CycleHistories : CyclePredict(cycles)

CycleEngineerAny == \E cycles \in EngineerHistories : CycleEngineer(cycles)

PcosPredictAny == \E user_data \in Profiles : PcosPredict(user_data)

GetRiskLevelAny == \E risk_score \in RiskScores : ApplyGetRiskLevel(risk_score)

CalculateConfidenceAny ==
    \E rf_proba \in Probas, gb_proba \in Probas : ApplyCalculateConfidence(rf_proba, gb_proba)

HandlerConstructAny ==
    \E fileP \in PcosFiles, proba \in DefaultProbas, fileC \in CycleFiles,
       mean \in DefaultMeans : HandlerConstruct(fileP, proba, fileC, mean)

CoordPredictNextCycleAny == \E cycles \in CoordHistories : CoordPredictNextCycle(cycles)

CoordPredictPcosRiskAny == \E user_data \in CoordProfiles : CoordPredictPcosRisk(user_data)

\* the cycle predictor on its own
NextCycle == LoadCycleAny \/ CyclePredictAny \/ CycleEngineerAny \/ Tick

SpecCycle == Init /\ [][NextCycle]_vars

\* the PCOS predictor on its own
NextPcos ==
    \/ LoadPcosAny
    \/ PcosPredictAny
    \/ \E user_data \in FactorProfiles : PcosPredict(user_data)
    \/ \E X \in {ScenarioB, Profile(25, 225, 28, 5, 3, 2, 3, 0, 0)} : ApplyPcosModelPredict(X)

SpecPcos == Init /\ [][NextPcos]_vars

\* the pure functions of the PCOS model
NextPure ==
    \/ GetRiskLevelAny
    \/ CalculateConfidenceAny
    \/ \E user_data \in EngineerProfiles : ApplyPcosEngineer(user_data)
    \/ \E sample \in EngineerProfiles : ApplyGetRiskFactors(sample)

SpecPure == Init /\ [][NextPure]_vars

\* the coordinator, with reloads of its predictors
NextCoord ==
    \/ HandlerConstructAny
    \/ CoordPredictNextCycleAny
    \/ CoordPredictPcosRiskAny
    \/ \E file \in {FileMissing, FileCorrupt} : LoadCycle(file, 280)
    \/ \E file \in {FileMissing, FileCorrupt} : LoadPcos(file, 0)
    \/ HealthCheck

SpecCoord == Init /\ [][NextCoord]_vars

HttpPredictPcosRiskAny ==
    \E auth_header \in AuthHeaders, is_json \in BOOLEAN, data \in HttpProfiles :
        HttpPredictPcosRisk(auth_header, is_json, data)

HttpPredictNextCycleAny ==
    \E auth_header \in AuthHeaders, is_json \in BOOLEAN, cycles \in HttpHistories :
        HttpPredictNextCycle(auth_header, is_json, cycles)

HttpAdminRequestAny ==
    \E auth_header \in AuthHeaders, body_status \in BodyStatuses :
        HttpAdminRequest(auth_header, body_status)

\* the service behind its HTTP routes
NextApi ==
    \/ \E fileP \in {FileMissing, FileWith(1), FileWith(2)},
          fileC \in {FileMissing, FileCorrupt, FileWith(1)} :
            HandlerConstruct(fileP, 0, fileC, 280)
    \/ HttpPredictPcosRiskAny
    \/ HttpPredictNextCycleAny
    \/ HttpAdminRequestAny

SpecApi == Init /\ [][NextApi]_vars

\* histories given to the two predictors side by side
PredictorHistories ==
    CoordHistories
    \cup { <<CycleRec(D0228, 45, Absent), CycleRec(D0425, 21, 5)>>,
           <<CycleRec(D0101, 28, 5), CycleRec(D0129, 28, 5)>> }

\* both predictors called directly
NextPredictors ==
    \/ \E file \in CycleFiles : LoadCycle(file, 280)
    \/ \E file \in PcosFiles : LoadPcos(file, 1000)
    \/ \E cycles \in PredictorHistories : CyclePredict(cycles)
    \/ PcosPredictAny
    \/ \E rf_proba \in Probas, gb_proba \in {0 - 500, 0, 1000, 1500} :
          ApplyCalculateConfidence(rf_proba, gb_proba)

SpecPredictors == Init /\ [][NextPredictors]_vars

ValidateModelOutputAny ==
    \/ \E output \in PcosOutputs : ApplyValidateModelOutput(output, "pcos_risk")
    \/ \E output \in CycleOutputs : ApplyValidateModelOutput(output, "cycle_prediction")

ValidatePcosAny ==
    \E data \in ValidatorProfiles, symptoms \in ValidatorSymptoms :
        ApplyValidatePcos(data, symptoms)

ValidateCycleAny == \E data \in ValidatorHistories : ApplyValidateCycle(data)

ValidateSymptomAny == \E data \in SymptomLists : ApplyValidateSymptom(data)

ProcessSymptomDataAny == \E symptoms \in SymptomLists : ApplyProcessSymptomData(symptoms)

\* the validator's methods on their own, next to a cycle predictor and
\* the symptom processing they guard
NextValidator ==
    \/ ValidateModelOutputAny
    \/ ValidatePcosAny
    \/ ValidateCycleAny
    \/ ValidateSymptomAny
    \/ ProcessSymptomDataAny
    \/ \E file \in {FileMissing, FileCorrupt} : LoadCycle(file, 280)
    \/ \E cycles \in CoordHistories : CyclePredict(cycles)
    \/ Tick

SpecValidator == Init /\ [][NextValidator]_vars

Next ==
    \/ LoadCycleAny
    \/ LoadPcosAny
    \/ CyclePredictAny
    \/ CycleEngineerAny
    \/ PcosPredictAny
    \/ GetRiskLevelAny
    \/ CalculateConfidenceAny
    \/ HandlerConstructAny
    \/ CoordPredictNextCycleAny
    \/ CoordPredictPcosRiskAny
    \/ Tick
    \/ NextValidator
    \/ NextPcos
    \/ NextPure
    \/ HealthCheck
    \/ NextApi

Spec == Init /\ [][Next]_vars

----------------------------------------------------------------------------
(* Properties *)

PredictorOps == {"cycle_predict", "pcos_predict"}

\* the predictor the last call was made on is ready now; a predict call
\* leaves both flags as they were
ReadyNow == IF res.op = "cycle_predict" THEN IsLoaded(cyc) ELSE IsLoaded(pcos)

InvalidInputNow ==
    IF res.op = "cycle_predict" THEN ~ValidateCycleInput(res.input).ok
    ELSE ~ValidatePcosInput(SanitizeInputData(res.input)).ok

StepsOf(r) == {r.steps[i] : i \in 1..Len(r.steps)}

\* C1: predict on a predictor that is not ready (never loaded, or whose last
\* load failed) raises the not-loaded error and returns no prediction, and
\* neither validation nor feature engineering has run, also for invalid input
C1_NotReadyRejectedFirst ==
    (res.op \in PredictorOps /\ ~ReadyNow) =>
        /\ res.outcome = "raised"
        /\ res.exc = "RuntimeError"
        /\ res.err = "not_loaded"
        /\ res.value = NoValue
        /\ StepsOf(res) \cap {"sanitize", "validate", "engineer_features"} = {}

\* an invalid history given to a cycle predictor whose reload failed
C1_Witness ==
    /\ res.op = "cycle_predict"
    /\ cyc.is_trained /\ ~cyc.loaded
    /\ InvalidInputNow
    /\ res.err = "not_loaded"

\* C2: after load_model on a path with no file the call has returned, the
\* default bundle is installed and the predictor is ready; and a predict call
\* gets past the readiness check only when both the wrapper's flag and the
\* bundle's is_trained flag are set
C2_MissingFileLoadsDefault ==
    /\ (res.op = "cycle_load" /\ res.input = FileMissing) =>
          /\ res.outcome = "returned"
          /\ cyc.loaded /\ cyc.is_trained /\ cyc.model.kind = "default"
    /\ (res.op = "pcos_load" /\ res.input = FileMissing) =>
          /\ res.outcome = "returned"
          /\ pcos.loaded /\ pcos.is_trained /\ pcos.model.kind = "default"
    /\ (res.op = "cycle_predict" /\ res.err # "not_loaded") =>
          (cyc.loaded /\ cyc.is_trained)
    /\ (res.op = "pcos_predict" /\ res.err # "not_loaded") =>
          (pcos.loaded /\ pcos.is_trained)

\* a cycle predictor that has just loaded from a path with no file
C2_Witness ==
    /\ res.op = "cycle_load"
    /\ res.input = FileMissing
    /\ IsLoaded(cyc)

\* C3: the predicted_cycle_length of every returned cycle prediction is an
\* integer in [21,45], whatever the two base models output
C3_LengthClamped ==
    (res.op = "cycle_predict" /\ res.outcome = "returned") =>
        res.value.predicted_cycle_length \in 21..45

\* a prediction returned although the base models output 100 and a negative value
C3_Witness ==
    /\ res.op = "cycle_predict"
    /\ res.outcome = "returned"
    /\ res.aux.rf < 0
    /\ res.aux.lr = 1000

\* the date d days after the ISO date dt
DatePlus(dt, d) == IsoFormat(FromIso(dt) + d)

\* C4: predicted_start_date is the start_date of a record with the latest
\* start_date plus that record's own cycle_length, for every model; records
\* ending with 2023-02-28, length 27 give 2023-03-27
C4_StartFromLastKnownCycle ==
    (res.op = "cycle_predict" /\ res.outcome = "returned") =>
        /\ \E i \in 1..Len(res.input) :
              /\ \A j \in 1..Len(res.input) :
                    FromIso(res.input[j].start_date) <= FromIso(res.input[i].start_date)
              /\ res.value.predicted_start_date
                    = DatePlus(res.input[i].start_date, res.input[i].cycle_length)
        /\ (res.input = ScenarioA) => res.value.predicted_start_date = <<2023, 3, 27>>

\* a history whose latest record is not the last of the list, predicted to a
\* length other than the anchor record's
C4_Witness ==
    /\ res.op = "cycle_predict"
    /\ res.outcome = "returned"
    /\ Len(res.input) = 3
    /\ res.input[1].start_date = D0228
    /\ res.value.predicted_start_date = <<2023, 3, 27>>
    /\ res.value.predicted_cycle_length # 27

\* C5: the confidence of every returned cycle prediction and PCOS prediction,
\* and every value of _calculate_confidence, lies in [0,1]
C5_ConfidenceInUnitInterval ==
    /\ (res.op \in PredictorOps /\ res.outcome = "returned") =>
          (0 <= res.value.confidence /\ res.value.confidence <= 1000)
    /\ (res.op = "calculate_confidence") =>
          (0 <= res.value.confidence /\ res.value.confidence <= 1000)

\* a cycle prediction whose unclipped confidence is negative
C5_Witness ==
    /\ res.op = "cycle_predict"
    /\ res.outcome = "returned"
    /\ Abs(res.aux.rf - res.aux.lr) > 10
    /\ RawCycleConfidence(res.aux.rf, res.aux.lr, res.aux.features.cycle_regularity) < 0
    /\ res.value.confidence = 0

\* C6: _get_risk_level maps every score of [0,1] to the one bucket of
\* low [0,0.3), moderate [0.3,0.6), high [0.6,0.8), very_high [0.8,1.0]
\* that holds it; 1.0 is very_high
C6_RiskLevelPartition ==
    (res.op = "get_risk_level") =>
        /\ (0 <= res.input /\ res.input < 300) <=> (res.value.risk_level = "low")
        /\ (300 <= res.input /\ res.input < 600) <=> (res.value.risk_level = "moderate")
        /\ (600 <= res.input /\ res.input < 800) <=> (res.value.risk_level = "high")
        /\ (800 <= res.input /\ res.input <= 1000) <=> (res.value.risk_level = "very_high")

\* the score 1.0
C6_Witness ==
    /\ res.op = "get_risk_level"
    /\ res.input = 1000
    /\ res.value.risk_level = "very_high"

\* C7: after any sequence of predict calls the PCOS model's feature-column
\* list, scaler and bundle equal their values right after load
C7_PredictLeavesModelUnchanged ==
    atLoad.set =>
        /\ pcos.feature_columns = atLoad.feature_columns
        /\ pcos.scaler_n = atLoad.scaler_n
        /\ pcos.model = atLoad.model

\* the prediction a cycle result carries, its timestamp aside
PredictionOf(value) ==
    [predicted_start_date |-> value.predicted_start_date,
     predicted_cycle_length |-> value.predicted_cycle_length,
     confidence |-> value.confidence,
     fertile_window |-> value.fertile_window,
     cycle_phase_predictions |-> value.cycle_phase_predictions]

\* C8: two consecutive cycle predictions on identical records with the model
\* unchanged return identical predictions, whatever the clock reads at each
\* call
C8_SameInputSameOutput ==
    [][(/\ res.op = "cycle_predict" /\ res.outcome = "returned"
        /\ res'.op = "cycle_predict" /\ res'.outcome = "returned"
        /\ res'.input = res.input
        /\ cyc' = cyc)
       => PredictionOf(res'.value) = PredictionOf(res.value)]_vars

\* C9: for a history of fewer than 2 records engineer_features returns the
\* default feature set with all nine entries
C9_DefaultFeatureSet ==
    (res.op = "cycle_engineer" /\ Len(res.input) < 2) =>
        /\ res.outcome = "returned"
        /\ res.value = [avg_cycle_length |-> 28000,
                        cycle_regularity |-> 500,
                        avg_period_length |-> 5000,
                        trend_slope |-> 0,
                        recent_avg |-> 28000,
                        season |-> GetSeason(res.at),
                        cycles_count |-> Len(res.input),
                        days_since_last |-> 0,
                        cycle_std |-> 0]

CoordOps == {"coord_predict_cycle", "coord_predict_pcos"}

\* C10: the coordinator's prediction methods return a structured value for
\* every predictor error; no exception leaves them
C10_CoordinatorNeverRaises ==
    (res.op \in CoordOps) => res.outcome = "returned"


\* C11: when the predictor is ready and its prediction passes the output
\* check, predict_next_cycle / predict_pcos_risk returns that prediction
\* with the enrichment and a timestamp attached
C11_ConformingPredictionReturnedEnriched ==
    [][ /\ ( /\ res'.op = "coord_predict_cycle"
             /\ IsLoaded(cyc)
             /\ CyclePredictOutcome(cyc, res'.input, now).outcome = "returned"
             /\ ValidateModelOutput(CyclePredictOutcome(cyc, res'.input, now).value,
                                    "cycle_prediction").ok )
           => ( /\ res'.outcome = "returned"
                /\ res'.value.prediction = CyclePredictOutcome(cyc, res'.input, now).value
                /\ res'.value.enrichment = "insights"
                /\ res'.value.timestamp = now )
        /\ ( /\ res'.op = "coord_predict_pcos"
             /\ IsLoaded(pcos)
             /\ PcosPredictOutcome(pcos, res'.input, now).out.outcome = "returned"
             /\ ValidateModelOutput(PcosPredictOutcome(pcos, res'.input, now).out.value,
                                    "pcos_risk").ok )
           => ( /\ res'.outcome = "returned"
                /\ res'.value.prediction = PcosPredictOutcome(pcos, res'.input, now).out.value
                /\ res'.value.enrichment = "recommendations"
                /\ res'.value.timestamp = now ) ]_vars

\* the PredictionResult invariants of a PCOS output
PcosOutputConforms(output) ==
    /\ {"risk_score", "risk_level", "confidence"} \subseteq DOMAIN output
    /\ output.risk_score \notin {Null, NotANumber}
    /\ 0 <= output.risk_score /\ output.risk_score <= 1000
    /\ 0 <= output.confidence /\ output.confidence <= 1000

\* the PredictionResult invariants of a cycle output
CycleOutputConforms(output) ==
    /\ {"predicted_start_date", "predicted_cycle_length", "confidence"}
           \subseteq DOMAIN output
    /\ 0 <= output.confidence /\ output.confidence <= 1000
    /\ CycleLengthMin <= output.predicted_cycle_length
    /\ output.predicted_cycle_length <= CycleLengthMax

\* C12: validate_model_output accepts exactly the outputs that carry every
\* required field, a PCOS risk_score and confidence in [0,1], a cycle
\* confidence in [0,1] and a cycle predicted_cycle_length in [21,45]
C12_OutputCheckRejectsExactlyViolations ==
    (res.op = "validate_model_output")
        => (res.value.ok <=> IF res.input[2] = "pcos_risk"
                             THEN PcosOutputConforms(res.input[1])
                             ELSE CycleOutputConforms(res.input[1]))


ValidatorInputOps ==
    {"validate_pcos_input", "validate_cycle_input", "validate_symptom_input"}

\* C13: validate_pcos_input, validate_cycle_input and validate_symptom_input
\* never raise on records with missing, null, wrongly typed or out-of-range
\* fields; each returns (ok, errors) with ok true exactly when errors is empty
C13_ValidatorsReturnErrorLists ==
    (res.op \in ValidatorInputOps)
        => /\ res.outcome = "returned"
           /\ res.value.ok <=> (Len(res.value.errors) = 0)

\* the ranges the specification documents for a user profile (bmi in tenths)
DocumentedRange(f) ==
    CASE f = "age" -> <<12, 60>>
      [] f = "bmi" -> <<100, 500>>
      [] f = "cycle_length" -> <<21, 45>>
      [] f = "period_length" -> <<1, 10>>
      [] f = "exercise_frequency" -> <<0, 7>>
      [] f = "stress_level" -> <<1, 5>>
      [] f = "sleep_quality" -> <<1, 4>>

DocumentedFields ==
    {"age", "bmi", "cycle_length", "period_length", "exercise_frequency",
     "stress_level", "sleep_quality"}

OutsideDocumentedRange(data, f) ==
    /\ data[f] \notin {Absent, Null, NotANumber}
    /\ ~(DocumentedRange(f)[1] <= data[f] /\ data[f] <= DocumentedRange(f)[2])

\* C14: a profile with age, bmi, cycle_length, period_length,
\* exercise_frequency, stress_level or sleep_quality outside its documented
\* range is rejected with an error naming that field
C14_OutOfRangeProfileRejected ==
    (res.op = "validate_pcos_input" /\ res.outcome = "returned")
        => \A f \in DocumentedFields :
              OutsideDocumentedRange(res.input[1], f)
                  => /\ ~res.value.ok
                     /\ \E i \in 1..Len(res.value.errors) : res.value.errors[i].field = f

\* a date that does not parse, or lies more than 30 days after the clock
DateUnacceptable(dt, nowv) == ~ValidDate(dt) \/ FromIso(dt) > nowv + 30

\* C15: a cycle or symptom record whose date does not parse as an ISO date
\* or lies more than 30 days after the time of validation is rejected
C15_BadOrFutureDateRejected ==
    /\ (res.op = "validate_cycle_input" /\ res.outcome = "returned")
          => ((\E i \in 1..Len(res.input) :
                  /\ res.input[i].start_date # NoDate
                  /\ DateUnacceptable(res.input[i].start_date, res.at))
              => ~res.value.ok)
    /\ (res.op = "validate_symptom_input" /\ res.outcome = "returned")
          => ((\E i \in 1..Len(res.input) :
                  /\ res.input[i].date # NoDate
                  /\ DateUnacceptable(res.input[i].date, res.at))
              => ~res.value.ok)

\* C16: validate_cycle_input rejects the empty list with an error saying at
\* least one cycle is required, and a ready CyclePredictor.predict on the
\* empty list raises the invalid-input error before the model is invoked
C16_EmptyHistoryRejected ==
    /\ (res.op = "validate_cycle_input" /\ Len(res.input) = 0)
          => /\ res.outcome = "returned"
             /\ ~res.value.ok
             /\ \E i \in 1..Len(res.value.errors) :
                    res.value.errors[i].code = "at_least_one_cycle"
    /\ (res.op = "cycle_predict" /\ Len(res.input) = 0 /\ IsLoaded(cyc))
          => /\ res.outcome = "raised"
             /\ res.exc = "ValueError"
             /\ res.err = "invalid_input"
             /\ res.steps = <<"is_loaded", "validate">>

C16_Witness ==
    /\ res.op = "cycle_predict"
    /\ Len(res.input) = 0
    /\ IsLoaded(cyc)
    /\ res.err = "invalid_input"

\* a type string that is none of the ten known categories
UnknownType(t) == t \notin SymptomTypeSet \cup {NoType, NullType}

\* C17: a symptom type outside the ten known categories is an error for
\* validate_symptom_input, while process_symptom_data encodes the same
\* record as "other" (code 9) without raising
C17_UnknownTypeRejectedButEncodedOther ==
    /\ (res.op = "validate_symptom_input")
          => \A i \in 1..Len(res.input) :
                UnknownType(res.input[i].type)
                    => /\ res.outcome = "returned"
                       /\ ~res.value.ok
                       /\ \E k \in 1..Len(res.value.errors) :
                              /\ res.value.errors[k].idx = i
                              /\ res.value.errors[k].code = "invalid_symptom_type"
    /\ ( /\ res.op = "process_symptom_data"
         /\ \E i \in 1..Len(res.input) : UnknownType(res.input[i].type)
         /\ \A i \in 1..Len(res.input) :
                /\ res.input[i].severity # Absent
                /\ ValidDate(res.input[i].date) )
          => /\ res.outcome = "returned"
             /\ \A i \in 1..Len(res.input) :
                    UnknownType(res.input[i].type)
                        => res.value.rows[i].symptom_type_encoded = 9

C17_Witness ==
    /\ res.op = "process_symptom_data"
    /\ res.outcome = "returned"
    /\ \E i \in 1..Len(res.input) :
          /\ res.input[i].type = "migraine"
          /\ res.value.rows[i].symptom_type_encoded = 9


\* the tags the six rules give on a raw profile (bmi in tenths)
ExpectedFactors(profile) ==
    { t \in {"elevated_bmi", "irregular_cycles", "family_history", "low_exercise",
             "high_stress", "poor_sleep"} :
        \/ t = "elevated_bmi" /\ profile.bmi > 250
        \/ t = "irregular_cycles"
              /\ (profile.cycle_length < 21 \/ profile.cycle_length > 35)
        \/ t = "family_history" /\ profile.family_history = 1
        \/ t = "low_exercise" /\ profile.exercise_frequency < 2
        \/ t = "high_stress" /\ profile.stress_level > 3
        \/ t = "poor_sleep" /\ profile.sleep_quality < 3 }

\* C18: the factors of a PCOS prediction are exactly the tags whose rule
\* holds on the raw profile: elevated_bmi iff bmi > 25, irregular_cycles iff
\* cycle_length < 21 or > 35, family_history iff true, low_exercise iff
\* exercise_frequency < 2, high_stress iff stress_level > 3, poor_sleep iff
\* sleep_quality < 3
C18_RiskFactorsMatchRules ==
    (res.op = "pcos_predict" /\ res.outcome = "returned")
        => res.value.factors = ExpectedFactors(res.input)

C18_Witness ==
    /\ res.op = "pcos_predict"
    /\ res.outcome = "returned"
    /\ res.input.bmi = 250
    /\ res.value.factors = {}


\* engineer_features returned the features of a history of at least 2 records
EngineeredFrom2(r) ==
    /\ r.op = "cycle_engineer"
    /\ r.outcome = "returned"
    /\ Len(r.input) >= 2

\* C19: cycle_regularity is max(0, 1 - std/7) of the history's cycle
\* lengths: of two histories of at least 2 records, the one with the larger
\* standard deviation never has the larger regularity, and the regularity
\* is never negative and never above 1
C19_RegularityMonotoneInStd ==
    [][ EngineeredFrom2(res')
        => /\ 0 <= res'.value.cycle_regularity
           /\ res'.value.cycle_regularity <= 1000
           /\ res'.value.cycle_regularity
                 = (IF res'.value.cycle_std >= 7000 THEN 0
                    ELSE (7000 - res'.value.cycle_std) \div 7)
           /\ (EngineeredFrom2(res) /\ res'.value.cycle_std > res.value.cycle_std)
                 => res'.value.cycle_regularity <= res.value.cycle_regularity ]_vars

C19_Witness ==
    /\ EngineeredFrom2(res)
    /\ res.value.cycle_std > 7000
    /\ res.value.cycle_regularity = 0


\* the records of a history carry pairwise distinct start_dates
DistinctStartDates(cycles) ==
    \A i, j \in 1..Len(cycles) :
        i # j => cycles[i].start_date # cycles[j].start_date

\* b lists the records of a in some order
PermutationOf(a, b) ==
    /\ Len(a) = Len(b)
    /\ DistinctStartDates(a)
    /\ {a[i] : i \in 1..Len(a)} = {b[i] : i \in 1..Len(b)}

\* C20: feature derivation and prediction do not depend on the order of the
\* records: on any permutation of the same cycle records with distinct
\* start_dates, at the same clock, engineer_features returns the same
\* features and predict returns the same predicted_start_date
C20_RecordOrderIrrelevant ==
    [][ (/\ res.op = res'.op
         /\ res.at = res'.at
         /\ res.ready = res'.ready
         /\ res.op \in {"cycle_engineer", "cycle_predict"}
         /\ PermutationOf(res.input, res'.input))
        => /\ res'.outcome = res.outcome
           /\ (res.op = "cycle_engineer" /\ res.outcome = "returned")
                 => res'.value = res.value
           /\ (res.op = "cycle_predict" /\ res.outcome = "returned")
                 => res'.value.predicted_start_date = res.value.predicted_start_date ]_vars

C20_Witness ==
    /\ res.op = "cycle_engineer"
    /\ res.outcome = "returned"
    /\ Len(res.input) = 2
    /\ FromIso(res.input[1].start_date) > FromIso(res.input[2].start_date)


\* C21: in every cycle prediction result the fertile window is anchored on
\* the returned values of the same result: peak = predicted_start_date +
\* (predicted_cycle_length - 14) days, start = peak - 5 days and
\* end = peak + 1 day
C21_FertileWindowAnchoredOnResult ==
    (res.op = "cycle_predict" /\ res.outcome = "returned")
        => /\ FromIso(res.value.fertile_window.peak)
                = FromIso(res.value.predicted_start_date)
                  + res.value.predicted_cycle_length - 14
           /\ FromIso(res.value.fertile_window.start)
                = FromIso(res.value.fertile_window.peak) - 5
           /\ FromIso(res.value.fertile_window.end)
                = FromIso(res.value.fertile_window.peak) + 1


\* C22: health_check reports status 'healthy' exactly when both predictors
\* are loaded and ready, and the per-model flags it returns equal
\* pcos_predictor.is_loaded() and cycle_predictor.is_loaded() at that
\* moment, including after a later reload of one predictor failed
C22_HealthyIffBothLoaded ==
    (res.op = "health_check")
        => /\ (res.value.body.status = "healthy") <=> (IsLoaded(pcos) /\ IsLoaded(cyc))
           /\ res.value.body.pcos_risk = IsLoaded(pcos)
           /\ res.value.body.cycle_prediction = IsLoaded(cyc)


\* C23: for the Scenario B profile the engineered fields are bmi_category=1,
\* cycle_irregular=0, lifestyle_risk=0 and age_group=1, and no risk factor
\* is reported
C23_ScenarioBFieldsAndNoFactors ==
    /\ (res.op = "pcos_engineer" /\ res.input = ScenarioB)
         => /\ res.value.engineered
            /\ res.value.derived.bmi_category = 1
            /\ res.value.derived.cycle_irregular = 0
            /\ res.value.derived.lifestyle_risk = 0
            /\ res.value.derived.age_group = 1
    /\ (res.op = "get_risk_factors" /\ res.input = ScenarioB)
         => res.value.factors = {}

C23_Witness ==
    /\ res.op = "pcos_engineer"
    /\ res.input = ScenarioB
    /\ res.value.engineered
    /\ Len(pcos.feature_columns) > Len(BaseFeatureColumns)

\* C24: predict on a PCOSRiskModel that has not been trained or loaded fails
\* with a ValueError, not another exception type, and no prediction is
\* produced
C24_UntrainedPredictRaisesValueError ==
    (res.op = "pcos_model_predict" /\ ~res.ready)
        => /\ res.outcome = "raised"
           /\ res.exc = "ValueError"
           /\ res.value = NoValue


\* the header carries a Bearer token that verifies and has not expired
Authenticated(auth_header) ==
    /\ auth_header.present
    /\ ~auth_header.empty
    /\ auth_header.n_parts = 2
    /\ auth_header.scheme \in {"Bearer", "bearer", "BEARER"}
    /\ auth_header.token.sig_ok
    /\ ~auth_header.token.expired

GuardedSteps ==
    {"validate_json_request", "validate_pcos_prediction_request",
     "validate_cycle_prediction_request", "sanitize_request_data",
     "predict_pcos_risk", "predict_next_cycle", "ml_handler"}

BodyRuns(steps) == Cardinality({i \in 1..Len(steps) : steps[i] = "body"})

\* C30: an endpoint wrapped by require_admin executes its body only for an
\* authenticated request whose role is admin, and at most once per request;
\* an authenticated non-admin request gets 403 without the body having run
C30_AdminBodyOnlyForAdminOnce ==
    (res.op = "http_admin")
        => /\ BodyRuns(res.steps) > 0
                => (Authenticated(res.input[1]) /\ res.input[1].token.role = "admin")
           /\ BodyRuns(res.steps) <= 1
           /\ (Authenticated(res.input[1]) /\ res.input[1].token.role # "admin")
                => (res.value.status_code = 403 /\ BodyRuns(res.steps) = 0)


\* the profile's validated fields are inside DataValidator's ranges
WithinValidatedRanges(data) ==
    /\ data.age \in 12..60
    /\ data.bmi \in 100..500
    /\ data.cycle_length \in 21..45
    /\ data.period_length \in 1..10

\* the documented threshold tables, bmi in tenths
DocumentedDerived(data) ==
    [bmi_category |-> IF data.bmi < 185 THEN 0
                      ELSE IF data.bmi < 250 THEN 1
                      ELSE IF data.bmi < 300 THEN 2 ELSE 3,
     cycle_irregular |-> IF data.cycle_length < 21 \/ data.cycle_length > 35 THEN 1 ELSE 0,
     period_category |-> IF data.period_length <= 3 THEN 0
                         ELSE IF data.period_length <= 7 THEN 1 ELSE 2,
     lifestyle_risk |-> (IF data.exercise_frequency < 2 THEN 1 ELSE 0)
                        + (IF data.stress_level > 3 THEN 1 ELSE 0)
                        + (IF data.sleep_quality < 3 THEN 1 ELSE 0),
     age_group |-> IF data.age < 18 THEN 0
                   ELSE IF data.age < 25 THEN 1
                   ELSE IF data.age < 35 THEN 2 ELSE 3]

\* C26: for every profile within the validated ranges engineer_features
\* computes bmi_category, cycle_irregular, period_category, lifestyle_risk
\* and age_group by the documented threshold tables, the boundary values
\* 18.5, 25, 30 for bmi and 18, 25, 35 for age included
C26_DerivedFieldsFollowTables ==
    (/\ res.op = "pcos_engineer"
     /\ res.value.engineered
     /\ WithinValidatedRanges(res.input))
        => res.value.derived = DocumentedDerived(res.input)


\* the call got past the readiness check and the input validator
PassedValidator(r) ==
    /\ r.ready
    /\ Len(r.steps) >= 2
    /\ ~(r.outcome = "raised" /\ r.err = "invalid_input")

\* the call failed inside the feature pipeline: predict stopped at
\* engineer_features (a feature key is missing) or at preprocess_data (a
\* feature column is missing)
FailedInFeaturePipeline(r) ==
    /\ r.outcome = "raised"
    /\ r.err = "prediction_failed"
    /\ r.steps[Len(r.steps)] \in {"engineer_features", "preprocess_data"}

\* C27: on a ready predictor every input that passes the validator is
\* predicted without error: an accepted cycle history of any length N >= 1
\* and an accepted profile never end in a prediction-failed error caused by
\* the feature pipeline itself
C27_ValidatedInputNeverFailsInPipeline ==
    (res.op \in PredictorOps /\ PassedValidator(res)) => ~FailedInFeaturePipeline(res)


\* the phase p of a prediction, as day ordinals
PhaseOf(value, p) ==
    [start |-> FromIso(value.cycle_phase_predictions[p].start),
     end |-> FromIso(value.cycle_phase_predictions[p].end)]

\* C28: for every predicted cycle length in [21,45] the four predicted phases
\* are in chronological order and do not overlap: menstrual ends before
\* follicular starts, follicular before ovulation, ovulation before luteal,
\* each phase has start <= end, and the luteal phase ends at
\* predicted_start_date + predicted cycle length
C28_PhasesOrderedAndDisjoint ==
    (/\ res.op = "cycle_predict"
     /\ res.outcome = "returned"
     /\ res.value.predicted_cycle_length \in CycleLengthMin..CycleLengthMax)
        => /\ PhaseOf(res.value, "menstrual").end < PhaseOf(res.value, "follicular").start
           /\ PhaseOf(res.value, "follicular").end < PhaseOf(res.value, "ovulation").start
           /\ PhaseOf(res.value, "ovulation").end < PhaseOf(res.value, "luteal").start
           /\ \A p \in {"menstrual", "follicular", "ovulation", "luteal"} :
                 PhaseOf(res.value, p).start <= PhaseOf(res.value, p).end
           /\ PhaseOf(res.value, "luteal").end
                 = FromIso(res.value.predicted_start_date) + res.value.predicted_cycle_length


LifestyleTags == {"low_exercise", "high_stress", "poor_sleep"}

\* C29: within one PCOS prediction the engineered fields and the reported
\* risk factors agree: lifestyle_risk is the number of lifestyle tags in the
\* factor set, cycle_irregular = 1 exactly when irregular_cycles is
\* reported, and bmi_category >= 2 exactly when elevated_bmi is reported
C29_DerivedFieldsAgreeWithFactors ==
    (res.op = "pcos_predict" /\ res.outcome = "returned")
        => /\ res.aux.derived # NoDerived
           /\ res.aux.derived.lifestyle_risk
                = Cardinality(res.value.factors \cap LifestyleTags)
           /\ (res.aux.derived.cycle_irregular = 1)
                <=> ("irregular_cycles" \in res.value.factors)
           /\ (res.aux.derived.bmi_category >= 2)
                <=> ("elevated_bmi" \in res.value.factors)

C29_Witness ==
    /\ res.op = "pcos_predict"
    /\ res.outcome = "returned"
    /\ res.aux.derived # NoDerived
    /\ res.aux.derived.lifestyle_risk = 3
    /\ res.aux.derived.bmi_category = 2
    /\ "irregular_cycles" \in res.value.factors

====
